---- MODULE Spec2Model ----
(***************************************************************************)
(* A model of the ensemble pipeline of finch (finch/processes):            *)
(* dataset discovery and filtering, grouping of files by variable,         *)
(* computation of intermediate variables, construction of indicator        *)
(* inputs and the ensemble handler itself.                                 *)
(*                                                                         *)
(* File names are sequences of tokens.  A token is a maximal run of        *)
(* characters that none of the literals of the BCCAQv2 file name pattern   *)
(* ("_", "BCCAQv2+ANUSPLIN300", "r", "i", "p", "-", ".nc") and none of the *)
(* substring tests of the code ("+" separated experiment ids) can split.   *)
(* The string "tasmin_day_BCCAQv2+ANUSPLIN300_CanESM2_historical+rcp45_    *)
(* r1i1p1_19500101-21001231.nc" is the sequence                            *)
(*   tasmin _ day _ BCCAQv2+ANUSPLIN300 _ CanESM2 _ historical + rcp45 _   *)
(*   r 1 i 1 p 1 _ 19500101 - 21001231 .nc                                 *)
(***************************************************************************)
EXTENDS Integers, Sequences, FiniteSets, TLC

VARIABLES
    \* get_bccaqv2_opendap_datasets
    catalog, method, variables, rcp, models, urls, dpos, dstate,
    \* get_sub_inputs
    sub_in, output_variables, passes, sub_pc,
    \* make_file_groups, compute_intermediate_variables, make_indicator_inputs
    files_list, parameters, workdir, fpc, caller,
    mfg_files, mfg_pos, filenames, groups,
    civ_groups, gpos, group, variables_to_compute, output_files_list, written,
    mii_files, input_list,
    \* ensemble_common_handler
    request, status_percentage_steps, hpc, rpos, output_filename,
    netcdf_inputs, subsetted_files, subsetted_intermediate_files,
    input_groups, index_n, indices_files, output_basename, ensembles,
    ensemble, response, log, trace, stored,
    \* make_output_filename
    name_inputs, name_rcp, name_output,
    \* chunk_dataset
    sizes, max_size, chunks, dim, halved, chunk_pc,
    \* FinchProcess.try_opendap
    od_input, od_chunks, od_ds, od_log, od_pc,
    \* SubsetBboxProcess.subset
    bbox_inputs, start_percentage, end_percentage, threads, count, lock,
    next_resource, thread_pc, thread_resource, thread_dataset, thread_count,
    metalink, bbox_log, bbox_pc

discoveryVars == <<catalog, method, variables, rcp, models, urls, dpos, dstate>>
subVars == <<sub_in, output_variables, passes, sub_pc>>
mfgVars == <<mfg_files, mfg_pos, filenames, groups>>
civVars ==
    <<civ_groups, gpos, group, variables_to_compute, output_files_list, written>>
miiVars == <<mii_files, input_list>>
filesVars ==
    <<files_list, parameters, workdir, fpc, caller, mfgVars, civVars, miiVars>>
rcpVars ==
    <<output_filename, netcdf_inputs, subsetted_files,
      subsetted_intermediate_files, input_groups, index_n, indices_files,
      output_basename>>
handlerVars ==
    <<request, status_percentage_steps, hpc, rpos, rcpVars, ensembles,
      ensemble, response, log, trace, stored>>
pipelineVars == <<discoveryVars, subVars, filesVars, handlerVars>>
nameVars == <<name_inputs, name_rcp, name_output>>
chunkVars == <<sizes, max_size, chunks, dim, halved, chunk_pc>>
opendapVars == <<od_input, od_chunks, od_ds, od_log, od_pc>>
bboxVars ==
    <<bbox_inputs, start_percentage, end_percentage, threads, count, lock,
      next_resource, thread_pc, thread_resource, thread_dataset, thread_count,
      metalink, bbox_log, bbox_pc>>
unitVars == <<nameVars, chunkVars, opendapVars, bboxVars>>
vars == <<pipelineVars, unitVars>>

(***************************************************************************)
(* Python values                                                           *)
(***************************************************************************)
None == [isNone |-> TRUE]
Some(x) == [isNone |-> FALSE, val |-> x]

Range(s) == {s[k] : k \in 1..Len(s)}

\* truthiness of an optional list and of an optional string: None, [] and ""
\* are falsy
TruthyList(opt) == ~opt.isNone /\ opt.val # <<>>
TruthyStr(opt) == ~opt.isNone /\ opt.val # ""

\* the data of a literal input: a float in thousandths, or a string holding a
\* comma separated list of floats
Float(x) == [float |-> x]
Str(list) == [str |-> list]
is_str(data) == "str" \in DOMAIN data

(***************************************************************************)
(* finch/processes/constants.py                                            *)
(***************************************************************************)
ALL_24_MODELS == "24MODELS"
PCIC_12 == "PCIC12"

BCCAQV2_MODELS ==
    << "BNU-ESM", "CCSM4", "CESM1-CAM5", "CNRM-CM5", "CSIRO-Mk3-6-0", "CanESM2",
       "FGOALS-g2", "GFDL-CM3", "GFDL-ESM2G", "GFDL-ESM2M", "HadGEM2-AO",
       "HadGEM2-ES", "IPSL-CM5A-LR", "IPSL-CM5A-MR", "MIROC-ESM-CHEM",
       "MIROC-ESM", "MIROC5", "MPI-ESM-LR", "MPI-ESM-MR", "MRI-CGCM3",
       "NorESM1-M", "NorESM1-ME", "bcc-csm1-1-m", "bcc-csm1-1" >>

\* (driving model, realization); the realization is a token pair "r", number
PCIC_12_MODELS_REALIZATIONS ==
    << <<"ACCESS1-0", <<"r", "1">> >>, <<"CCSM4", <<"r", "2">> >>,
       <<"CNRM-CM5", <<"r", "1">> >>, <<"CSIRO-Mk3-6-0", <<"r", "1">> >>,
       <<"CanESM2", <<"r", "1">> >>, <<"GFDL-ESM2G", <<"r", "1">> >>,
       <<"HadGEM2-CC", <<"r", "1">> >>, <<"HadGEM2-ES", <<"r", "1">> >>,
       <<"inmcm4", <<"r", "1">> >>, <<"MIROC5", <<"r", "3">> >>,
       <<"MPI-ESM-LR", <<"r", "3">> >>, <<"MRI-CGCM3", <<"r", "1">> >> >>

bccaq_variables == {"tasmin", "tasmax", "pr"}

xclim_netcdf_variables ==
    {"tasmin", "tasmax", "tas", "pr", "prsn", "tn10", "tn90", "tx90", "t10", "t90"}

(***************************************************************************)
(* ensemble_utils.py: variable_computations and accepted_variables         *)
(***************************************************************************)
variable_computations ==
    [tas  |-> [inputs |-> <<"tasmin", "tasmax">>, function |-> "_tas"],
     tn10 |-> [inputs |-> <<"tasmin">>, function |-> "_percentile_doy_tn10"],
     tn90 |-> [inputs |-> <<"tasmin">>, function |-> "_percentile_doy_tn90"],
     tx90 |-> [inputs |-> <<"tasmax">>, function |-> "_percentile_doy_tx90"],
     t10  |-> [inputs |-> <<"tas">>, function |-> "_percentile_doy_t10"],
     t90  |-> [inputs |-> <<"tas">>, function |-> "_percentile_doy_t90"]]

accepted_variables == bccaq_variables \cup DOMAIN variable_computations
not_implemented_variables == xclim_netcdf_variables \ accepted_variables

(***************************************************************************)
(* str.lower() on the tokens of the model                                  *)
(***************************************************************************)
LowerPairs ==
    << <<"24MODELS", "24models">>, <<"PCIC12", "pcic12">>,
       <<"BCCAQv2+ANUSPLIN300", "bccaqv2+anusplin300">>,
       <<"BCCAQV2+ANUSPLIN300", "bccaqv2+anusplin300">>,
       <<"ACCESS1-0", "access1-0">>, <<"BNU-ESM", "bnu-esm">>,
       <<"CCSM4", "ccsm4">>, <<"CESM1-CAM5", "cesm1-cam5">>,
       <<"CNRM-CM5", "cnrm-cm5">>, <<"CSIRO-Mk3-6-0", "csiro-mk3-6-0">>,
       <<"CanESM2", "canesm2">>, <<"CANESM2", "canesm2">>,
       <<"FGOALS-g2", "fgoals-g2">>, <<"GFDL-CM3", "gfdl-cm3">>,
       <<"GFDL-ESM2G", "gfdl-esm2g">>, <<"GFDL-ESM2M", "gfdl-esm2m">>,
       <<"HadGEM2-AO", "hadgem2-ao">>, <<"HadGEM2-CC", "hadgem2-cc">>,
       <<"HadGEM2-ES", "hadgem2-es">>, <<"IPSL-CM5A-LR", "ipsl-cm5a-lr">>,
       <<"IPSL-CM5A-MR", "ipsl-cm5a-mr">>, <<"MIROC-ESM-CHEM", "miroc-esm-chem">>,
       <<"MIROC-ESM", "miroc-esm">>, <<"MIROC5", "miroc5">>,
       <<"MPI-ESM-LR", "mpi-esm-lr">>, <<"MPI-ESM-MR", "mpi-esm-mr">>,
       <<"MRI-CGCM3", "mri-cgcm3">>, <<"NorESM1-M", "noresm1-m">>,
       <<"NorESM1-ME", "noresm1-me">>, <<"FakeGCM", "fakegcm">>,
       <<"R", "r">>, <<"I", "i">>, <<"P", "p">>, <<".NC", ".nc">> >>

MixedCase == {LowerPairs[k][1] : k \in 1..Len(LowerPairs)}
LowerOf ==
    [s \in MixedCase |->
        LowerPairs[CHOOSE k \in 1..Len(LowerPairs) : LowerPairs[k][1] = s][2]]

Lower(s) == IF s \in MixedCase THEN LowerOf[s] ELSE s

LowerAll(seq) == [k \in 1..Len(seq) |-> Lower(seq[k])]

(***************************************************************************)
(* parse.parse(pattern, string): the pattern is a sequence of literals     *)
(* and named fields.  parse compiles it to the anchored regular            *)
(* expression in which a field is the non-greedy group (.+?), and matches  *)
(* case-insensitively.  The result is the first match in backtracking      *)
(* order, or no match.                                                     *)
(***************************************************************************)
Lit(t) == [field |-> FALSE, tok |-> t]
Fld(n) == [field |-> TRUE, tok |-> n]

NoMatch == [ok |-> FALSE, named |-> <<>>]

RECURSIVE MatchFrom(_, _, _, _)
RECURSIVE MatchField(_, _, _, _, _)

\* match pattern elements pi.. against tokens ti..; `named` lists the field
\* values in pattern order
MatchFrom(pat, pi, toks, ti) ==
    IF pi > Len(pat)
    THEN IF ti > Len(toks) THEN [ok |-> TRUE, named |-> <<>>] ELSE NoMatch
    ELSE IF pat[pi].field
         THEN MatchField(pat, pi, toks, ti, 1)
         ELSE IF ti <= Len(toks) /\ Lower(toks[ti]) = Lower(pat[pi].tok)
              THEN MatchFrom(pat, pi + 1, toks, ti + 1)
              ELSE NoMatch

\* the field at pi takes k tokens; on failure of the rest it takes one more
\* (the match of the rest is bound once, as a value)
MatchField(pat, pi, toks, ti, k) ==
    IF ti + k - 1 > Len(toks)
    THEN NoMatch
    ELSE CHOOSE result \in
             { IF rest.ok
               THEN [ok |-> TRUE,
                     named |-> <<SubSeq(toks, ti, ti + k - 1)>> \o rest.named]
               ELSE MatchField(pat, pi, toks, ti, k + 1) :
                   rest \in {MatchFrom(pat, pi + 1, toks, ti + k)} } : TRUE

parse(pat, toks) == MatchFrom(pat, 1, toks, 1)

(***************************************************************************)
(* The names of the model                                                  *)
(***************************************************************************)
MkName(var, model, exp, real, tail) ==
    <<var, "_", "day", "_", "BCCAQv2+ANUSPLIN300", "_", model, "_">> \o exp
        \o <<"_", "r", real, "i", "1", "p", "1", "_", "19500101", "-", "21001231">>
        \o tail

Hist(r) == <<"historical", "+", r>>

\* the data sets a catalog of the model is made of
CatalogNames ==
    << MkName("tasmin", "CanESM2", Hist("rcp45"), "1", <<".nc">>),
       MkName("tasmin", "CNRM-CM5", Hist("rcp85"), "1", <<".nc">>),
       MkName("tasmax", "CanESM2", Hist("rcp45"), "1", <<".nc">>),
       MkName("tasmin", "CCSM4", Hist("rcp45"), "2", <<".nc">>),
       MkName("tasmin", "CCSM4", Hist("rcp45"), "1", <<".nc">>),
       MkName("tasmin", "NorESM1-ME", Hist("rcp45"), "1", <<".">>),
       MkName("tasmin", "FakeGCM", Hist("rcp45"), "1", <<".nc">>),
       <<"tasmin", "_", "day", "_", "CanESM2", "_">> \o Hist("rcp45")
           \o <<"_", "19500101", "-", "21001231", ".nc">> >>

\* the data sets of the catalog the handler reads (dataset_bccaqv2)
ThreddsNames ==
    << MkName("tasmin", "CanESM2", Hist("rcp45"), "1", <<".nc">>),
       MkName("tasmax", "CanESM2", Hist("rcp45"), "1", <<".nc">>),
       MkName("tasmin", "CCSM4", Hist("rcp45"), "1", <<".nc">>),
       MkName("tasmax", "CCSM4", Hist("rcp45"), "1", <<".nc">>),
       MkName("tasmin", "CCSM4", Hist("rcp45"), "2", <<".nc">>),
       MkName("tasmin", "CanESM2", Hist("rcp85"), "1", <<".nc">>),
       MkName("tasmax", "CanESM2", Hist("rcp85"), "1", <<".nc">>),
       MkName("tasmin", "CNRM-CM5", Hist("rcp85"), "1", <<".nc">>),
       MkName("pr", "CanESM2", Hist("rcp45"), "1", <<".nc">>),
       MkName("tasmin", "NorESM1-ME", Hist("rcp45"), "1", <<".">>) >>

(***************************************************************************)
(* Bccaqv2File                                                             *)
(***************************************************************************)
Bccaqv2Pattern ==
    << Fld("variable"), Lit("_"), Fld("frequency"), Lit("_"),
       Lit("BCCAQv2+ANUSPLIN300"), Lit("_"), Fld("driving_model_id"), Lit("_"),
       Fld("driving_experiment_id"), Lit("_"),
       Lit("r"), Fld("driving_realization"),
       Lit("i"), Fld("driving_initialization_method"),
       Lit("p"), Fld("driving_physics_version"), Lit("_"),
       Fld("date_start"), Lit("-"), Fld("date_end"), Lit(".nc") >>

\* the pattern matched against the names of the model, computed once
ParsedNames ==
    [n \in Range(CatalogNames) \cup Range(ThreddsNames) |->
        parse(Bccaqv2Pattern, n)]

parse_name(filename) ==
    IF filename \in DOMAIN ParsedNames THEN ParsedNames[filename]
    ELSE parse(Bccaqv2Pattern, filename)

\* cls(**parse(pattern, filename).named): parse returns None when the name
\* does not match, and None.named raises AttributeError
Bccaqv2File_construct(filename) ==
    LET m == parse_name(filename)
    IN  IF ~m.ok
        THEN [exc |-> "AttributeError"]
        ELSE [exc |-> "none",
              val |-> [variable |-> m.named[1],
                       frequency |-> m.named[2],
                       driving_model_id |-> m.named[3],
                       driving_experiment_id |-> m.named[4],
                       driving_realization |-> m.named[5],
                       driving_initialization_method |-> m.named[6],
                       driving_physics_version |-> m.named[7],
                       date_start |-> m.named[8],
                       date_end |-> m.named[9]]]

\* a from_filename whose except clause catches nothing
from_filename_uncaught(filename) ==
    LET r == Bccaqv2File_construct(filename)
    IN  IF r.exc = "none" THEN [exc |-> "none", ret |-> Some(r.val)]
        ELSE [exc |-> r.exc]

\* Bccaqv2File.from_filename: the parsed file, or None on AttributeError
from_filename(filename) ==
    LET r == Bccaqv2File_construct(filename)
    IN  IF r.exc = "none" THEN [exc |-> "none", ret |-> Some(r.val)]
        ELSE IF r.exc = "AttributeError" THEN [exc |-> "none", ret |-> None]
        ELSE [exc |-> r.exc]

(***************************************************************************)
(* _bccaqv2_filter                                                         *)
(***************************************************************************)
\* parsed.variable in variables
variable_in(parsed, vs) == \E k \in 1..Len(vs) : <<vs[k]>> = parsed.variable

\* rcp in parsed.driving_experiment_id (a substring test)
rcp_in(r, parsed) ==
    \E k \in 1..Len(parsed.driving_experiment_id) :
        parsed.driving_experiment_id[k] = r

\* the loop with the realization compared as it is written, "r" included
pcic12_ok_with_r(parsed) ==
    \E k \in 1..Len(PCIC_12_MODELS_REALIZATIONS) :
        /\ <<Lower(PCIC_12_MODELS_REALIZATIONS[k][1])>>
              = LowerAll(parsed.driving_model_id)
        /\ PCIC_12_MODELS_REALIZATIONS[k][2] = parsed.driving_realization

\* the loop over PCIC_12_MODELS_REALIZATIONS
pcic12_ok(parsed) ==
    \E k \in 1..Len(PCIC_12_MODELS_REALIZATIONS) :
        LET model == PCIC_12_MODELS_REALIZATIONS[k][1]
            realization == PCIC_12_MODELS_REALIZATIONS[k][2]
            model_ok == <<Lower(model)>> = LowerAll(parsed.driving_model_id)
            r_ok == Tail(realization) = parsed.driving_realization
        IN  model_ok /\ r_ok

\* [m.lower() for m in BCCAQV2_MODELS]
BCCAQV2_MODELS_lower == LowerAll(BCCAQV2_MODELS)

\* the sentinel compared as it is written
selected_models_exact(ms) ==
    IF ms.isNone \/ ms.val = <<ALL_24_MODELS>>
    THEN BCCAQV2_MODELS_lower
    ELSE LowerAll(ms.val)

\* models is None or [m.lower() for m in models] == [ALL_24_MODELS.lower()]
selected_models(ms) ==
    IF ms.isNone \/ LowerAll(ms.val) = <<Lower(ALL_24_MODELS)>>
    THEN BCCAQV2_MODELS_lower
    ELSE LowerAll(ms.val)

\* a filter that looks at the variable and the rcp of the parsed name only
filter_parsed_any_model(parsed, vs, r, sel) ==
    IF TruthyList(vs) /\ ~variable_in(parsed, vs.val) THEN FALSE
    ELSE IF TruthyStr(r) /\ ~rcp_in(r.val, parsed) THEN FALSE
    ELSE TRUE

\* the filename branch once the name is parsed; sel is the lowered list of
\* selected models
filter_parsed(parsed, vs, r, sel) ==
    IF TruthyList(vs) /\ ~variable_in(parsed, vs.val) THEN FALSE
    ELSE IF TruthyStr(r) /\ ~rcp_in(r.val, parsed) THEN FALSE
    ELSE IF sel = <<Lower(PCIC_12)>> THEN pcic12_ok(parsed)
    ELSE LET driving_model_id == LowerAll(parsed.driving_model_id)
             model_ok == \E k \in 1..Len(sel) : <<sel[k]>> = driving_model_id
             r_ok == parsed.driving_realization = <<"1">>
         IN  model_ok /\ r_ok

\* _bccaqv2_filter(method, filename, url, variables, rcp, models): the value
\* returned, or the exception raised
bccaqv2_filter(m, filename, url, vs, r, ms) ==
    LET sel == selected_models(ms)
    IN  IF m = "filename"
        THEN LET p == from_filename(filename)
             IN  IF p.exc # "none" THEN [exc |-> p.exc]
                 ELSE IF p.ret.isNone THEN [exc |-> "none", ret |-> FALSE]
                 ELSE [exc |-> "none",
                       ret |-> filter_parsed(p.ret.val, vs, r, sel)]
        ELSE [exc |-> "NotImplementedError"]

\* dataset.access_urls["OPENDAP"] of the data set named CatalogNames[n]
OpendapUrl(n) == [dodsC |-> n]
Dataset(n) == [name |-> CatalogNames[n], access_urls |-> [OPENDAP |-> OpendapUrl(n)]]

MaxCatalog == 2

\* sequences of distinct data sets: catalog.datasets is a dict keyed by name
RECURSIVE Catalogs(_)
Catalogs(n) ==
    IF n = 0 THEN {<<>>}
    ELSE LET shorter == Catalogs(n - 1)
         IN  shorter \cup
             {Append(c, Dataset(k)) : c \in {x \in shorter : Len(x) = n - 1},
                                      k \in 1..Len(CatalogNames)}

DistinctNames(c) == \A a, b \in 1..Len(c) : a # b => c[a].name # c[b].name

RequestVariables ==
    {None, Some(<<>>), Some(<<"tasmin">>), Some(<<"tasmin", "tasmax">>)}
RequestRcps == {None, Some("rcp45"), Some("rcp85")}
RequestModels ==
    {None, Some(<<"24models">>), Some(<<PCIC_12>>), Some(<<"canesm2", "CCSM4">>)}
ParsingMethods == {"filename", "opendap_das", "xarray"}

(***************************************************************************)
(* The state of the file functions when they are not called                *)
(***************************************************************************)
FileCallsIdle ==
    /\ files_list = <<>> /\ fpc = "idle"
    /\ caller = "" /\ mfg_files = <<>> /\ mfg_pos = 1 /\ filenames = <<>>
    /\ groups = <<>> /\ civ_groups = <<>> /\ gpos = 1 /\ group = <<>>
    /\ variables_to_compute = {} /\ output_files_list = <<>> /\ written = <<>>
    /\ mii_files = <<>> /\ input_list = <<>>

FilesIdle == parameters = {} /\ workdir = <<>> /\ FileCallsIdle

(***************************************************************************)
(* The state of the handler when it is not called                          *)
(***************************************************************************)
HandlerIdle ==
    /\ request = <<>> /\ status_percentage_steps = <<>> /\ hpc = "idle"
    /\ rpos = 1 /\ output_filename = <<>> /\ netcdf_inputs = <<>>
    /\ subsetted_files = <<>> /\ subsetted_intermediate_files = <<>>
    /\ input_groups = <<>> /\ index_n = 0 /\ indices_files = <<>>
    /\ output_basename = <<>> /\ ensembles = <<>> /\ ensemble = <<>>
    /\ response = <<>> /\ log = <<>> /\ trace = <<>> /\ stored = <<>>

\* make_output_filename is not called
NameIdle == name_inputs = <<>> /\ name_rcp = None /\ name_output = None

\* chunk_dataset is not called
ChunkIdle ==
    /\ sizes = <<>> /\ max_size = 0 /\ chunks = <<>> /\ dim = 0
    /\ halved = <<>> /\ chunk_pc = "idle"

\* try_opendap is not called
OpendapIdle ==
    /\ od_input = <<>> /\ od_chunks = None /\ od_ds = None /\ od_log = <<>>
    /\ od_pc = "idle"

\* SubsetBboxProcess.subset is not called
BboxIdle ==
    /\ bbox_inputs = <<>> /\ start_percentage = 0 /\ end_percentage = 0
    /\ threads = 0 /\ count = 0 /\ lock = 0 /\ next_resource = 0
    /\ thread_pc = <<>> /\ thread_resource = <<>> /\ thread_dataset = <<>>
    /\ thread_count = <<>> /\ metalink = <<>> /\ bbox_log = <<>>
    /\ bbox_pc = "idle"

UnitIdle == NameIdle /\ ChunkIdle /\ OpendapIdle /\ BboxIdle

(***************************************************************************)
(* get_bccaqv2_opendap_datasets: one step per data set of the catalog      *)
(***************************************************************************)
DiscoveryIdle ==
    /\ catalog = <<>> /\ method = "filename" /\ variables = None /\ rcp = None
    /\ models = None /\ urls = <<>> /\ dpos = 1 /\ dstate = "idle"

DiscoveryInit ==
    /\ catalog \in {c \in Catalogs(MaxCatalog) : DistinctNames(c)}
    /\ method \in ParsingMethods
    /\ variables \in RequestVariables
    /\ rcp \in RequestRcps
    /\ models \in RequestModels
    \* the methods that are not implemented read none of the selection
    /\ method # "filename" => variables = None /\ rcp = None /\ models = None
    /\ urls = <<>>
    /\ dpos = 1
    /\ dstate = "loop"

\* one iteration of `for dataset in catalog.datasets.values()`
DiscoverDataset ==
    /\ dstate = "loop"
    /\ dpos <= Len(catalog)
    /\ LET dataset == catalog[dpos]
           opendap_url == dataset.access_urls.OPENDAP
           r == bccaqv2_filter(method, dataset.name, opendap_url,
                               variables, rcp, models)
       IN  IF r.exc # "none"
           THEN /\ dstate' = r.exc
                /\ UNCHANGED <<urls, dpos>>
           ELSE /\ urls' = IF r.ret THEN Append(urls, opendap_url) ELSE urls
                /\ dpos' = dpos + 1
                /\ dstate' = dstate
    /\ UNCHANGED <<catalog, method, variables, rcp, models, subVars, unitVars, filesVars,
                   handlerVars>>

\* return urls
DiscoverReturn ==
    /\ dstate = "loop"
    /\ dpos > Len(catalog)
    /\ dstate' = "returned"
    /\ UNCHANGED <<catalog, method, variables, rcp, models, urls, dpos, subVars, unitVars, filesVars,
                   handlerVars>>

DiscoveryNext == DiscoverDataset \/ DiscoverReturn

(***************************************************************************)
(* Discovery: the claims                                                   *)
(***************************************************************************)
UrlsOf(ds) == [k \in 1..Len(ds) |-> ds[k].access_urls.OPENDAP]

NameParses(ds) == parse_name(ds.name).ok

\* the requested variables and the requested rcp, when given; m is the match
\* of the name: fields 1, 3, 4, 5 are the variable, the driving model, the
\* experiment id and the realization
VariableRequested(m) ==
    TruthyList(variables) => \E v \in Range(variables.val) : m.named[1] = <<v>>
RcpRequested(m) ==
    TruthyStr(rcp) => rcp.val \in Range(m.named[4])

PcicSelected == ~models.isNone /\ LowerAll(models.val) = <<Lower(PCIC_12)>>
AllSelected ==
    models.isNone \/ LowerAll(models.val) = <<Lower(ALL_24_MODELS)>>

All24Names == {Lower(x) : x \in Range(BCCAQV2_MODELS)}
Pcic12Names ==
    {Lower(PCIC_12_MODELS_REALIZATIONS[k][1]) :
        k \in 1..Len(PCIC_12_MODELS_REALIZATIONS)}
Pcic12Pairs ==
    {<<Lower(PCIC_12_MODELS_REALIZATIONS[k][1]), PCIC_12_MODELS_REALIZATIONS[k][2]>> :
        k \in 1..Len(PCIC_12_MODELS_REALIZATIONS)}

\* the lowered names of the models a selection stands for
SelectedModelNames ==
    IF AllSelected THEN All24Names
    ELSE IF PcicSelected THEN Pcic12Names
    ELSE {Lower(x) : x \in Range(models.val)}

ModelSelectedWithRealization1(m) ==
    /\ Len(m.named[3]) = 1
    /\ Lower(m.named[3][1]) \in SelectedModelNames
    /\ m.named[5] = <<"1">>

PcicPairSelected(m) ==
    /\ Len(m.named[3]) = 1
    /\ <<Lower(m.named[3][1]), <<"r">> \o m.named[5]>> \in Pcic12Pairs

C1_StatedAccepts(ds) ==
    LET m == parse_name(ds.name)
    IN  /\ m.ok
        /\ VariableRequested(m)
        /\ RcpRequested(m)
        /\ ModelSelectedWithRealization1(m)

C1_Accepts(ds) ==
    LET m == parse_name(ds.name)
    IN  /\ m.ok
        /\ VariableRequested(m)
        /\ RcpRequested(m)
        /\ IF PcicSelected THEN PcicPairSelected(m)
           ELSE ModelSelectedWithRealization1(m)

\* C1 as stated: with the filename method the urls returned are those of the
\* data sets whose name parses, whose variable and rcp are the requested ones
\* and whose driving model is a selected model with realization 1, in catalog
\* order, one each.
C1_AsStated ==
    (method = "filename" /\ dstate = "returned")
        => urls = UrlsOf(SelectSeq(catalog, C1_StatedAccepts))

\* C1 (amended): with the filename method the urls collected so far are, in
\* catalog order and one each, those of the data sets seen whose name parses,
\* whose variable is requested (when variables are given), whose experiment
\* id contains the rcp (when given) and whose (driving model, realization) is
\* a PCIC-12 pair when the selection is the PCIC-12 sentinel, and otherwise
\* whose driving model is a selected model with realization 1.
C1_Discovery ==
    (method = "filename" /\ dstate \in {"loop", "returned"})
        => urls = UrlsOf(SelectSeq(SubSeq(catalog, 1, dpos - 1), C1_Accepts))

\* a catalog of two data sets is searched with all selections given: one data
\* set is returned, the other left out
C1_Witness ==
    /\ dstate = "returned" /\ method = "filename"
    /\ TruthyList(variables) /\ TruthyStr(rcp) /\ ~models.isNone
    /\ Len(catalog) = 2 /\ Len(urls) = 1
    /\ NameParses(catalog[1]) /\ NameParses(catalog[2])

\* C2: a name that does not match the pattern makes from_filename return
\* None and _bccaqv2_filter return False without raising; discovery with the
\* filename method raises nothing and returns the urls of the data sets the
\* filter accepts, whatever non-matching names the catalog holds.
C2_NonMatchingRejected ==
    /\ \A k \in 1..Len(catalog) :
          ~NameParses(catalog[k]) =>
              /\ from_filename(catalog[k].name) = [exc |-> "none", ret |-> None]
              /\ bccaqv2_filter("filename", catalog[k].name,
                                catalog[k].access_urls.OPENDAP,
                                variables, rcp, models)
                     = [exc |-> "none", ret |-> FALSE]
    /\ method = "filename" => dstate \in {"loop", "returned"}
    /\ (method = "filename" /\ dstate = "returned") =>
          \A k \in 1..Len(catalog) :
              (catalog[k].access_urls.OPENDAP \in Range(urls))
                  <=> C1_Accepts(catalog[k])

\* a catalog with a non-matching name and a matching data set was searched
C2_Witness ==
    /\ dstate = "returned" /\ method = "filename"
    /\ \E k \in 1..Len(catalog) : ~NameParses(catalog[k])
    /\ urls # <<>>

(***************************************************************************)
(* get_sub_inputs: one step per pass of the while loop                     *)
(***************************************************************************)
SubIdle ==
    /\ sub_in = <<>> /\ output_variables = <<>> /\ passes = 0 /\ sub_pc = "idle"

MaxSubInputs == 2

RECURSIVE SeqsUpTo(_, _)
SeqsUpTo(S, n) ==
    IF n = 0 THEN {<<>>}
    ELSE LET shorter == SeqsUpTo(S, n - 1)
         IN  shorter \cup
             {Append(q, x) : q \in {y \in shorter : Len(y) = n - 1}, x \in S}

SubInit ==
    /\ sub_in \in SeqsUpTo(accepted_variables, MaxSubInputs)
    /\ output_variables = sub_in
    /\ passes = 0
    /\ sub_pc = "loop"

RECURSIVE sub_pass_drop(_)
\* a pass that forgets the variables that are not derived
sub_pass_drop(vs) ==
    IF vs = <<>> THEN <<>>
    ELSE (IF Head(vs) \in DOMAIN variable_computations
          THEN variable_computations[Head(vs)].inputs
          ELSE <<>>) \o sub_pass_drop(Tail(vs))

RECURSIVE sub_pass(_)
\* the body of the while loop: new_output_variables
sub_pass(vs) ==
    IF vs = <<>> THEN <<>>
    ELSE (IF Head(vs) \in DOMAIN variable_computations
          THEN variable_computations[Head(vs)].inputs
          ELSE <<Head(vs)>>) \o sub_pass(Tail(vs))

\* any(v in variable_computations for v in output_variables)
any_derived(vs) == \E k \in 1..Len(vs) : vs[k] \in DOMAIN variable_computations

SubPass ==
    /\ sub_pc = "loop"
    /\ any_derived(output_variables)
    /\ output_variables' = sub_pass(output_variables)
    /\ passes' = passes + 1
    /\ UNCHANGED <<sub_in, sub_pc, discoveryVars, unitVars, filesVars,
                   handlerVars>>

SubReturn ==
    /\ sub_pc = "loop"
    /\ ~any_derived(output_variables)
    /\ sub_pc' = "returned"
    /\ UNCHANGED <<sub_in, output_variables, passes, discoveryVars, unitVars, filesVars,
                   handlerVars>>

\* get_sub_inputs as a function, for its callers
RECURSIVE get_sub_inputs(_)
get_sub_inputs(vs) == IF any_derived(vs) THEN get_sub_inputs(sub_pass(vs)) ELSE vs

SubNext == SubPass \/ SubReturn

InitSub ==
    SubInit /\ DiscoveryIdle /\ FilesIdle /\ HandlerIdle /\ UnitIdle

SpecSub == InitSub /\ [][SubNext]_vars

(***************************************************************************)
(* get_sub_inputs: the claims                                              *)
(***************************************************************************)
\* the variables reachable from S through the inputs of variable_computations
RECURSIVE Reachable(_)
Reachable(S) ==
    LET more == S \cup UNION {Range(variable_computations[v].inputs) :
                                 v \in S \cap DOMAIN variable_computations}
    IN  IF more = S THEN S ELSE Reachable(more)

\* the number of derivation steps below a variable
RECURSIVE Depth(_)
Depth(v) ==
    IF v \notin DOMAIN variable_computations THEN 0
    ELSE LET ins == Range(variable_computations[v].inputs)
         IN  1 + CHOOSE d \in {Depth(i) : i \in ins} :
                     \A i \in ins : Depth(i) <= d

MaxDepthOf(vs) ==
    IF vs = <<>> THEN 0
    ELSE CHOOSE d \in {Depth(v) : v \in Range(vs)} :
             \A v \in Range(vs) : Depth(v) <= d

\* C9: get_sub_inputs terminates (each pass lowers the derivation depth of
\* the list, so the passes made never exceed the depth of the input) and on
\* return no element is a key of variable_computations, the set of elements
\* is the set of non-derived variables reachable from the input, and every
\* non-derived variable of the input is in the result.
C9_SubInputs ==
    /\ passes + MaxDepthOf(output_variables) = MaxDepthOf(sub_in)
    /\ sub_pc = "returned" =>
          /\ \A k \in 1..Len(output_variables) :
                output_variables[k] \notin DOMAIN variable_computations
          /\ Range(output_variables)
                = Reachable(Range(sub_in)) \ DOMAIN variable_computations
          /\ \A v \in Range(sub_in) :
                v \notin DOMAIN variable_computations
                    => v \in Range(output_variables)
          /\ output_variables = get_sub_inputs(sub_in)

\* t10 or t90 was resolved through tas next to a variable that is not derived
C9_Witness ==
    /\ sub_pc = "returned"
    /\ passes = 2
    /\ \E v \in Range(sub_in) : v \in bccaq_variables
    /\ Range(output_variables) = {"tasmin", "tasmax", "pr"}

InitDiscovery ==
    DiscoveryInit /\ SubIdle /\ FilesIdle /\ HandlerIdle /\ UnitIdle

SpecDiscovery == InitDiscovery /\ [][DiscoveryNext]_vars

(***************************************************************************)
(* Paths and insertion-ordered dicts                                       *)
(***************************************************************************)
\* pathlib.Path: a directory (the sequence of its parts) and a name
Path(dir, name) == [dir |-> dir, name |-> name]

\* a dict as the sequence of its (key, value) pairs in insertion order
Keys(d) == {d[k][1] : k \in 1..Len(d)}
Get(d, key) == d[CHOOSE k \in 1..Len(d) : d[k][1] = key][2]
\* d[key] = value
Put(d, key, value) ==
    IF key \in Keys(d)
    THEN [k \in 1..Len(d) |-> IF d[k][1] = key THEN <<key, value>> ELSE d[k]]
    ELSE Append(d, <<key, value>>)

\* the orders in which a set may be iterated
Orders(S) ==
    {q \in [1..Cardinality(S) -> S] : \A a, b \in 1..Cardinality(S) :
                                         a # b => q[a] # q[b]}

\* name.startswith(f"{variable}_")
startswith_variable(name, variable) ==
    Len(name) >= 2 /\ name[1] = variable /\ name[2] = "_"

\* name.replace(old, new, 1)
replace_first(name, old, new) ==
    IF \E k \in 1..Len(name) : name[k] = old
    THEN LET k == CHOOSE i \in 1..Len(name) :
                      name[i] = old /\ \A j \in 1..(i - 1) : name[j] # old
         IN  [i \in 1..Len(name) |-> IF i = k THEN new ELSE name[i]]
    ELSE name

\* name.split("_", 1)[1]
after_first_underscore(name) ==
    LET k == CHOOSE i \in 1..Len(name) :
                 name[i] = "_" /\ \A j \in 1..(i - 1) : name[j] # "_"
    IN  SubSeq(name, k + 1, Len(name))

(***************************************************************************)
(* make_file_groups: one step per file of files_list                       *)
(***************************************************************************)
\* {f.name: f for f in files_list}: a later file of the same name wins
filenames_of(files) ==
    [n \in {files[k].name : k \in 1..Len(files)} |->
        files[CHOOSE k \in 1..Len(files) :
                  files[k].name = n
                  /\ \A j \in (k + 1)..Len(files) : files[j].name # n]]

\* del d[name]
del(d, names) == [n \in (DOMAIN d) \ names |-> d[n]]

\* the accepted variable the file name starts with, if any
prefix_variables(name) == {v \in accepted_variables : startswith_variable(name, v)}

\* the other variables whose file of the same base name is in filenames
other_vars_present(name, variable, fnames) ==
    {o \in accepted_variables \ {variable} :
        replace_first(name, variable, o) \in DOMAIN fnames}

\* the names a group takes out of filenames, when the other files are kept
group_names_keep_others(name, variable, fnames) == {name}

\* the names a group takes out of filenames: `del filenames[...]`
group_names(name, variable, fnames) ==
    {name} \cup {replace_first(name, variable, o) :
                    o \in other_vars_present(name, variable, fnames)}

\* the group of `file`, its other variables inserted in the order `others`
make_group(file, variable, others, fnames) ==
    [k \in 1..(Len(others) + 1) |->
        IF k <= Len(others)
        THEN <<others[k], fnames[replace_first(file.name, variable, others[k])]>>
        ELSE <<variable, file>>]

\* make_file_groups is entered with files
MfgEnter(files) ==
    /\ mfg_files' = files
    /\ mfg_pos' = 1
    /\ filenames' = filenames_of(files)
    /\ groups' = <<>>

\* one iteration of `for file in files_list`
MakeFileGroupsFile ==
    /\ fpc = "make_file_groups"
    /\ mfg_pos <= Len(mfg_files)
    /\ LET file == mfg_files[mfg_pos]
       IN  IF file.name \notin DOMAIN filenames \/ prefix_variables(file.name) = {}
           THEN UNCHANGED <<filenames, groups>>
           ELSE \E variable \in prefix_variables(file.name) :
                \E others \in Orders(other_vars_present(file.name, variable, filenames)) :
                   /\ groups' = Append(groups,
                                   make_group(file, variable, others, filenames))
                   /\ filenames' = del(filenames,
                                       group_names(file.name, variable, filenames))
    /\ mfg_pos' = mfg_pos + 1
    /\ UNCHANGED <<files_list, parameters, workdir, fpc, caller, mfg_files,
                   civVars, miiVars, discoveryVars, subVars, unitVars,
                   handlerVars>>

(***************************************************************************)
(* compute_intermediate_variables                                          *)
(***************************************************************************)
\* the paths of a group that are required without any computation, in the
\* order of group.items()
RECURSIVE required_paths(_, _)
required_paths(g, required) ==
    IF g = <<>> THEN <<>>
    ELSE (IF Head(g)[1] \in required THEN <<Head(g)[2]>> ELSE <<>>)
             \o required_paths(Tail(g), required)

\* `for variable in list(variables_to_compute)`: the inputs of each variable
\* that are themselves computed are added; a variable that is not a key of
\* variable_computations raises KeyError
intermediates(to_compute) ==
    to_compute \cup
        {i \in DOMAIN variable_computations :
            \E v \in to_compute \cap DOMAIN variable_computations :
                i \in Range(variable_computations[v].inputs)}

\* all(i in group for i in input_names)
computable(variable, g) ==
    \A i \in Range(variable_computations[variable].inputs) : i \in Keys(g)

\* output_files_list after a computed file: every computed file is returned
append_computed_always(out, variable, output_file, required) ==
    Append(out, output_file)

\* output_files_list after a computed file
append_computed(out, variable, output_file, required) ==
    IF variable \in required THEN Append(out, output_file) ELSE out

\* required_variable_names of the indicator: dataset_input_names
required_variable_names == accepted_variables \cap parameters

\* make_file_groups returned to compute_intermediate_variables
CivGroupsReady ==
    /\ fpc = "make_file_groups"
    /\ mfg_pos > Len(mfg_files)
    /\ caller = "compute_intermediate_variables"
    /\ civ_groups' = groups
    /\ gpos' = 1
    /\ output_files_list' = <<>>
    /\ fpc' = "for group"
    /\ UNCHANGED <<files_list, parameters, workdir, caller, mfgVars, group,
                   variables_to_compute, written, miiVars, discoveryVars, subVars, unitVars,
                   handlerVars>>

\* the start of one iteration of `for group in file_groups`, up to the while
CivGroupStart ==
    /\ fpc = "for group"
    /\ gpos <= Len(civ_groups)
    /\ LET g == civ_groups[gpos]
           to_compute == required_variable_names \ Keys(g)
       IN  /\ group' = g
           /\ output_files_list' =
                  output_files_list \o required_paths(g, required_variable_names)
           /\ IF to_compute \subseteq DOMAIN variable_computations
              THEN /\ variables_to_compute' = intermediates(to_compute)
                   /\ fpc' = "while"
              ELSE /\ variables_to_compute' = to_compute
                   /\ fpc' = "KeyError"
    /\ UNCHANGED <<files_list, parameters, workdir, caller, mfgVars, civ_groups,
                   gpos, written, miiVars, discoveryVars, subVars, unitVars,
                   handlerVars>>

\* one pass of `while variables_to_compute` that computes a variable: the
\* first one, in the iteration order of the set, whose inputs are in the group
CivCompute ==
    /\ fpc = "while"
    /\ \E variable \in variables_to_compute :
          /\ computable(variable, group)
          /\ LET input_names == variable_computations[variable].inputs
                 inputs == [k \in 1..Len(input_names) |-> Get(group, input_names[k])]
                 first_variable == civ_groups[gpos][1][1]
                 basename ==
                     after_first_underscore(Get(civ_groups[gpos], first_variable).name)
                 output_file == Path(workdir, <<variable, "_">> \o basename)
             IN  /\ written' = Append(written,
                                  [file |-> output_file, variable |-> variable,
                                   function |-> variable_computations[variable].function,
                                   inputs |-> inputs])
                 /\ variables_to_compute' = variables_to_compute \ {variable}
                 /\ group' = Put(group, variable, output_file)
                 /\ output_files_list' =
                        append_computed(output_files_list, variable, output_file,
                                        required_variable_names)
    /\ UNCHANGED <<files_list, parameters, workdir, fpc, caller, mfgVars,
                   civ_groups, gpos, miiVars, discoveryVars, subVars, unitVars,
                   handlerVars>>

\* the else of the for loop: no variable left can be computed
CivRaise ==
    /\ fpc = "while"
    /\ variables_to_compute # {}
    /\ \A variable \in variables_to_compute : ~computable(variable, group)
    /\ fpc' = "RuntimeError"
    /\ UNCHANGED <<files_list, parameters, workdir, caller, mfgVars, civVars,
                   miiVars, discoveryVars, subVars, unitVars,
                   handlerVars>>

\* the while loop ends: the next group
CivGroupDone ==
    /\ fpc = "while"
    /\ variables_to_compute = {}
    /\ gpos' = gpos + 1
    /\ fpc' = "for group"
    /\ UNCHANGED <<files_list, parameters, workdir, caller, mfgVars, civ_groups,
                   group, variables_to_compute, output_files_list, written,
                   miiVars, discoveryVars, subVars, unitVars,
                   handlerVars>>

\* return output_files_list
CivReturn ==
    /\ fpc = "for group"
    /\ gpos > Len(civ_groups)
    /\ fpc' = "computed"
    /\ UNCHANGED <<files_list, parameters, workdir, caller, mfgVars, civVars,
                   miiVars, discoveryVars, subVars, unitVars,
                   handlerVars>>

(***************************************************************************)
(* make_indicator_inputs                                                   *)
(***************************************************************************)
\* request_inputs_not_datasets: the inputs of the request that are not files
wps_inputs == [freq |-> [data |-> "YS"]]

\* make_nc_input(variable_name) with its file set
nc_input(path) == [file |-> path]

required_netcdf_args == accepted_variables \cap parameters

\* the inputs of a group when no variable is skipped
group_inputs_all(g, required) ==
    [v \in Keys(g) |-> nc_input(Get(g, v))] @@ wps_inputs

\* the inputs of a group: `if variable_name not in required_netcdf_args:
\* continue`
group_inputs(g, required) ==
    [v \in Keys(g) \cap required |-> nc_input(Get(g, v))] @@ wps_inputs

\* the inputs of one file when the indicator takes one variable
file_inputs(variable_name, path) ==
    (variable_name :> nc_input(path)) @@ wps_inputs

\* make_indicator_inputs is called with files; with exactly one required
\* variable it returns at once, otherwise it calls make_file_groups
MiiCall(files) ==
    /\ mii_files' = files
    /\ IF Cardinality(required_netcdf_args) = 1
       THEN /\ \E variable_name \in required_netcdf_args :
                  input_list' = [k \in 1..Len(files) |->
                                    file_inputs(variable_name, files[k])]
            /\ fpc' = "done"
            /\ UNCHANGED <<caller, mfgVars>>
       ELSE /\ MfgEnter(files)
            /\ caller' = "make_indicator_inputs"
            /\ fpc' = "make_file_groups"
            /\ UNCHANGED input_list

\* make_file_groups returned to make_indicator_inputs
MiiGroupsReady ==
    /\ fpc = "make_file_groups"
    /\ mfg_pos > Len(mfg_files)
    /\ caller = "make_indicator_inputs"
    /\ input_list' = [k \in 1..Len(groups) |->
                         group_inputs(groups[k], required_netcdf_args)]
    /\ fpc' = "done"
    /\ UNCHANGED <<files_list, parameters, workdir, caller, mfgVars, civVars,
                   mii_files, discoveryVars, subVars, unitVars,
                   handlerVars>>

(***************************************************************************)
(* The file functions called on a list of files: either                    *)
(* make_indicator_inputs alone, or compute_intermediate_variables and then *)
(* make_indicator_inputs on its result, as the handler calls them          *)
(***************************************************************************)
MaxFiles == 3

\* the names of the files: a variable, then the rest of a data set name
FileVariables == <<"tasmin", "tasmax", "tas", "tasmin", "tasmax", "pr", "huss">>
FileModels == <<"CanESM2", "CanESM2", "CanESM2", "CCSM4", "CCSM4", "CanESM2", "CanESM2">>
FileNames ==
    [k \in 1..Len(FileVariables) |->
        MkName(FileVariables[k], FileModels[k], Hist("rcp45"), "1", <<".nc">>)]

NoRepeat(q) == \A a, b \in 1..Len(q) : a # b => q[a] # q[b]

\* the parameters of the indicators: the variables they take and `freq`
Indicators ==
    { {"tasmin", "freq"}, {"tasmin", "tasmax", "freq"}, {"tas", "freq"},
      {"tas", "t10", "freq"}, {"tasmin", "tn10", "freq"},
      {"tasmax", "t90", "freq"} }

\* the files are those of the working directory, as the handler passes them,
\* and no two have the same name
FilesInit ==
    /\ files_list \in
          {[k \in 1..Len(q) |-> Path(<<"workdir">>, FileNames[q[k]])] :
              q \in {x \in SeqsUpTo(1..Len(FileNames), MaxFiles) : NoRepeat(x)}}
    /\ parameters \in Indicators
    /\ workdir = <<"workdir">>
    /\ fpc = "start"
    /\ caller = "" /\ mfg_files = <<>> /\ mfg_pos = 1 /\ filenames = <<>>
    /\ groups = <<>> /\ civ_groups = <<>> /\ gpos = 1 /\ group = <<>>
    /\ variables_to_compute = {} /\ output_files_list = <<>> /\ written = <<>>
    /\ mii_files = <<>> /\ input_list = <<>>

\* compute_intermediate_variables(files_list, dataset_input_names, workdir)
CallComputeIntermediate ==
    /\ fpc = "start"
    /\ MfgEnter(files_list)
    /\ caller' = "compute_intermediate_variables"
    /\ fpc' = "make_file_groups"
    /\ UNCHANGED <<files_list, parameters, workdir, civVars, miiVars,
                   discoveryVars, subVars, unitVars,
                   handlerVars>>

\* make_indicator_inputs(xci, request_inputs_not_datasets, files_list)
CallMakeIndicatorInputs ==
    /\ fpc = "start"
    /\ MiiCall(files_list)
    /\ UNCHANGED <<files_list, parameters, workdir, civVars, discoveryVars, subVars, unitVars,
                   handlerVars>>

\* make_indicator_inputs(xci, ..., subsetted_intermediate_files)
CallMakeIndicatorInputsComputed ==
    /\ fpc = "computed"
    /\ MiiCall(output_files_list)
    /\ UNCHANGED <<files_list, parameters, workdir, civVars, discoveryVars, subVars, unitVars,
                   handlerVars>>

FilesNext ==
    \/ CallComputeIntermediate
    \/ CallMakeIndicatorInputs
    \/ CallMakeIndicatorInputsComputed
    \/ MakeFileGroupsFile
    \/ CivGroupsReady
    \/ CivGroupStart
    \/ CivCompute
    \/ CivRaise
    \/ CivGroupDone
    \/ CivReturn
    \/ MiiGroupsReady

InitFiles ==
    FilesInit /\ DiscoveryIdle /\ SubIdle /\ HandlerIdle /\ UnitIdle

SpecFiles == InitFiles /\ [][FilesNext]_vars

(***************************************************************************)
(* The file functions: the claims                                          *)
(***************************************************************************)
\* the files whose name starts with an accepted variable and "_"
WithVariable(S) ==
    {f \in S : Len(f.name) >= 2 /\ f.name[2] = "_"
               /\ f.name[1] \in accepted_variables}
\* the name after the leading "<accepted variable>_"
Base(f) == SubSeq(f.name, 3, Len(f.name))

\* the groups of a set of files: one per base name, mapping each variable to
\* the file of that base name that carries it
GroupsOfSet(S) ==
    {[v \in {f.name[1] : f \in {x \in WithVariable(S) : Base(x) = b}} |->
         CHOOSE f \in WithVariable(S) : Base(f) = b /\ f.name[1] = v] :
        b \in {Base(f) : f \in WithVariable(S)}}

Mapping(g) == [v \in Keys(g) |-> Get(g, v)]
Values(g) == {g[k][2] : k \in 1..Len(g)}

FileGroupsReturned == fpc = "make_file_groups" /\ mfg_pos > Len(mfg_files)

\* C7: when make_file_groups returns, two files that carry an accepted
\* variable are in the same group exactly when their names are equal after
\* the leading "<variable>_" is removed (so each such file is in a group, and
\* a file without such a prefix is in none), each group maps a variable to a
\* file whose name starts with it, and the groups, as a set of mappings, are
\* the groups of the set of files, whatever the order of files_list.
C7_FileGroups ==
    FileGroupsReturned =>
        /\ \A a, b \in WithVariable(Range(mfg_files)) :
              (\E k \in 1..Len(groups) : {a, b} \subseteq Values(groups[k]))
                  <=> Base(a) = Base(b)
        /\ \A f \in Range(mfg_files) \ WithVariable(Range(mfg_files)) :
              \A k \in 1..Len(groups) : f \notin Values(groups[k])
        /\ \A k \in 1..Len(groups) : \A i \in 1..Len(groups[k]) :
              startswith_variable(groups[k][i][2].name, groups[k][i][1])
        /\ {Mapping(groups[k]) : k \in 1..Len(groups)}
              = GroupsOfSet(Range(mfg_files))
        /\ Len(groups) = Cardinality(GroupsOfSet(Range(mfg_files)))

\* three files were grouped in two groups, the second file of the list
\* joining the group of the third or of the first
C7_Witness ==
    /\ FileGroupsReturned
    /\ Len(mfg_files) = 3
    /\ Len(groups) = 2
    /\ Base(mfg_files[1]) # Base(mfg_files[2])

CivBase(g) == Base(g[1][2])

\* C8: when compute_intermediate_variables returns, for every group and
\* every required variable the list holds the group's own file when it has
\* one, and otherwise the file "<variable>_<base name>" of workdir, which was
\* written from files of that group by the function of variable_computations;
\* every file of the list carries a required variable, so a file computed
\* only as an intermediate is not returned.
C8_IntermediateVariables ==
    fpc = "computed" =>
        /\ \A k \in 1..Len(civ_groups) : \A v \in required_variable_names :
              LET g == civ_groups[k]
                  computed == Path(workdir, <<v, "_">> \o CivBase(g))
              IN  IF v \in Keys(g)
                  THEN Get(g, v) \in Range(output_files_list)
                  ELSE /\ computed \in Range(output_files_list)
                       /\ \E w \in Range(written) :
                             /\ w.file = computed
                             /\ w.function = variable_computations[v].function
                             /\ Len(w.inputs) = Len(variable_computations[v].inputs)
                             /\ \A i \in 1..Len(w.inputs) :
                                   w.inputs[i].name =
                                       <<variable_computations[v].inputs[i], "_">>
                                           \o CivBase(g)
        /\ \A f \in Range(output_files_list) :
              f.name[1] \in required_variable_names
        /\ \A w \in Range(written) :
              w.variable \notin required_variable_names
                  => w.file \notin Range(output_files_list)

\* a group had tasmax, t90 was computed through tas: tasmax and t90 are
\* returned, the tas file is written and not returned
C8_Witness ==
    /\ fpc = "computed"
    /\ required_variable_names = {"tasmax", "t90"}
    /\ \E w \in Range(written) : w.variable = "tas"
    /\ \E f \in Range(output_files_list) : f.name[1] = "t90"
    /\ \E f \in Range(output_files_list) : f.name[1] = "tasmax" /\ f \in Range(files_list)

\* C10: make_indicator_inputs returns, for an indicator with exactly one
\* accepted variable, one input set per file of files_list, in order, with
\* that variable bound to the file; otherwise one input set per file group,
\* in which the required variables the group has are bound to the group's
\* files and no other accepted variable is bound.  The other inputs of the
\* request are kept.
C10_IndicatorInputs ==
    fpc = "done" =>
        IF Cardinality(accepted_variables \cap parameters) = 1
        THEN /\ Len(input_list) = Len(mii_files)
             /\ \A k \in 1..Len(input_list) :
                   /\ DOMAIN input_list[k] \cap accepted_variables
                          = accepted_variables \cap parameters
                   /\ \A v \in accepted_variables \cap parameters :
                          input_list[k][v].file = mii_files[k]
                   /\ \A i \in DOMAIN wps_inputs : input_list[k][i] = wps_inputs[i]
        ELSE /\ Len(input_list) = Cardinality(GroupsOfSet(Range(mii_files)))
             /\ \A k \in 1..Len(input_list) :
                   /\ Mapping(groups[k]) \in GroupsOfSet(Range(mii_files))
                   /\ DOMAIN input_list[k] \cap accepted_variables
                          = Keys(groups[k]) \cap parameters
                   /\ \A v \in Keys(groups[k]) \cap parameters :
                          input_list[k][v].file = Get(groups[k], v)
                   /\ \A i \in DOMAIN wps_inputs : input_list[k][i] = wps_inputs[i]
             /\ \A a, b \in 1..Len(groups) :
                   a # b => Mapping(groups[a]) # Mapping(groups[b])

\* an indicator of two variables got the inputs of two groups, one of which
\* holds a file of a variable the indicator does not take
C10_Witness ==
    /\ fpc = "done"
    /\ Cardinality(accepted_variables \cap parameters) = 2
    /\ Len(input_list) = 2
    /\ \E k \in 1..Len(groups) : ~(Keys(groups[k]) \subseteq parameters)
    /\ \E k \in 1..Len(input_list) :
          Cardinality(DOMAIN input_list[k] \cap accepted_variables) = 2

\* an indicator of one variable got one input set per file
C10_WitnessSingle ==
    /\ fpc = "done"
    /\ Cardinality(accepted_variables \cap parameters) = 1
    /\ Len(input_list) = 3

(***************************************************************************)
(* ensemble_common_handler: its request, its process and the functions it  *)
(* calls                                                                   *)
(***************************************************************************)
\* max_occurs of the rcp input of the ensemble processes
MaxRcps == 3

\* allowed values of the rcp input that the catalog has data for
HandlerRcps == {"rcp45", "rcp85"}

\* process.identifier: f"ensemble_bbox_{attrs['identifier']}"
identifier == <<"ensemble", "_", "bbox", "_", "indicator">>

\* the requests: the rcps (one to three), the models, the output format and
\* the corners of the box in thousandths of a degree
Requests ==
    [rcp : SeqsUpTo(HandlerRcps, MaxRcps) \ {<<>>},
     models : {<<ALL_24_MODELS>>, <<PCIC_12>>, <<"CanESM2">>},
     output_format : {"netcdf", "csv"},
     lat0 : {Float(45000)}, lon0 : {Float(-72500)}, lat1 : {Float(46000)},
     lon1 : {Float(-71000)}]

\* the parameters of the indicator of the process (xci_inputs_identifiers)
HandlerIndicators ==
    { {"tasmin", "freq"}, {"tasmin", "tasmax", "freq"}, {"tas", "freq"},
      {"tasmax", "t90", "freq"} }

\* self.status_percentage_steps of the process
StatusPercentageSteps ==
    [start |-> 5, subset |-> 7, compute_indices |-> 50, convert_to_csv |-> 95,
     done |-> 99]

\* del d[key] on a dict with string keys
del_key(d, key) == [k \in (DOMAIN d) \ {key} |-> d[k]]

\* accepted_variables.intersection(xci_inputs)
dataset_input_names == accepted_variables \cap parameters

\* bccaq_variables.intersection(get_sub_inputs(dataset_input_names)); the
\* set is iterated in some order, which the result does not depend on
source_variable_names ==
    bccaq_variables \cap
        Range(get_sub_inputs(CHOOSE q \in Orders(dataset_input_names) : TRUE))

\* the catalog of the Thredds server
ThreddsUrl(k) == [thredds |-> k]
ThreddsCatalog ==
    [k \in 1..Len(ThreddsNames) |->
        [name |-> ThreddsNames[k], access_urls |-> [OPENDAP |-> ThreddsUrl(k)]]]

\* get_bccaqv2_opendap_datasets as a function of the catalog: the urls of the
\* data sets the filter accepts, in catalog order
RECURSIVE opendap_datasets(_, _, _, _)
opendap_datasets(c, vs, r, ms) ==
    IF c = <<>> THEN <<>>
    ELSE (IF bccaqv2_filter("filename", Head(c).name,
                            Head(c).access_urls.OPENDAP, vs, r, ms).ret
          THEN <<Head(c).access_urls.OPENDAP>>
          ELSE <<>>) \o opendap_datasets(Tail(c), vs, r, ms)

\* _get_bccaqv2_inputs: one resource input per url
RECURSIVE resources(_, _)
resources(found, dir) ==
    IF found = <<>> THEN <<>>
    ELSE <<[url |-> Head(found), workdir |-> dir]>> \o resources(Tail(found), dir)

\* get_datasets(dataset_name, workdir, variables, rcp, models)
get_datasets(dir, vs, r, ms) ==
    resources(opendap_datasets(ThreddsCatalog, Some(vs), Some(r), Some(ms)), dir)

\* f"{float(value):.3f}" of a number of thousandths
fixed3(v) ==
    LET a == IF v < 0 THEN 0 - v ELSE v
    IN  (IF v < 0 THEN <<"-">> ELSE <<>>)
            \o <<ToString(a \div 1000), ".", ToString((a % 1000) \div 100),
                 ToString((a % 100) \div 10), ToString(a % 10)>>

\* the coordinates that occur in the requests, in thousandths of a degree
Coordinates == {0, 45000, 45500, 46000, -72500, -72250, -71000}

\* float(s) of a string that f"{x:.3f}" produced
float_of(s) == CHOOSE v \in Coordinates : fixed3(v) = s

\* _formatted_coordinate: None for a value that is absent or falsy (None, 0.0
\* and ""), else the first float of the value with three decimals
formatted_coordinate(value) ==
    IF value.isNone THEN None
    ELSE IF is_str(value.val)
    THEN IF value.val.str = <<>> THEN None
         ELSE Some(fixed3(Head(value.val.str)))
    ELSE IF value.val.float = 0 THEN None
    ELSE Some(fixed3(value.val.float))

\* single_input_or_none(inputs, name)
single_input_or_none(inputs, name) ==
    IF name \in DOMAIN inputs THEN Some(inputs[name]) ELSE None

\* "_".join(parts)
RECURSIVE join(_)
join(parts) ==
    IF parts = <<>> THEN <<>>
    ELSE IF Len(parts) = 1 THEN parts[1]
    ELSE parts[1] \o <<"_">> \o join(Tail(parts))

\* make_output_filename(process, inputs, rcp=None)
make_output_filename(inputs, r) ==
    LET rcp_part == IF r.isNone THEN single_input_or_none(inputs, "rcp") ELSE r
        lat == formatted_coordinate(single_input_or_none(inputs, "lat"))
        lon == formatted_coordinate(single_input_or_none(inputs, "lon"))
        lat0 == formatted_coordinate(single_input_or_none(inputs, "lat0"))
        lon0 == formatted_coordinate(single_input_or_none(inputs, "lon0"))
        lat1 == formatted_coordinate(single_input_or_none(inputs, "lat1"))
        lon1 == formatted_coordinate(single_input_or_none(inputs, "lon1"))
        first == IF ~lat.isNone /\ ~lon.isNone
                 THEN <<fixed3(float_of(lat.val)), fixed3(float_of(lon.val))>>
                 ELSE IF ~lat0.isNone /\ ~lon0.isNone
                 THEN <<fixed3(float_of(lat0.val)), fixed3(float_of(lon0.val))>>
                 ELSE <<>>
        second == IF ~lat1.isNone /\ ~lon1.isNone
                  THEN <<fixed3(float_of(lat1.val)), fixed3(float_of(lon1.val))>>
                  ELSE <<>>
        last == IF TruthyStr(rcp_part) THEN << <<rcp_part.val>> >> ELSE <<>>
    IN  join(<<identifier>> \o first \o second \o last)

\* the tokens a suffix of a path name starts at
SuffixStarts == {".", ".nc", ".csv", ".zip", ".txt"}

\* the index of the token the suffix of the name starts at, 0 when it has none
suffix_at(name) ==
    IF \E i \in 2..Len(name) : name[i] \in SuffixStarts
    THEN CHOOSE i \in 2..Len(name) :
             name[i] \in SuffixStarts
             /\ \A j \in (i + 1)..Len(name) : name[j] \notin SuffixStarts
    ELSE 0

\* PurePath.stem and PurePath.with_suffix: the suffix is what follows the
\* last dot of the name
stem(name) ==
    IF suffix_at(name) = 0 THEN name ELSE SubSeq(name, 1, suffix_at(name) - 1)
with_suffix(path, suffix) == Path(path.dir, stem(path.name) \o <<suffix>>)

\* str.replace(old, new): every occurrence
RECURSIVE replace_all(_, _, _)
replace_all(name, old, new) ==
    IF name = <<>> THEN <<>>
    ELSE (IF Head(name) = old THEN new ELSE <<Head(name)>>)
             \o replace_all(Tail(name), old, new)

\* the functions of other modules, as the handler uses them
\* ---------------------------------------------------------------------
\* subset_function: one file per resource, written in process.workdir and
\* named after its data set with "_sub" before the suffix, or no file at all
\* when the bounds hold no data
subset_function(dir, inputs, produced) ==
    IF produced
    THEN [k \in 1..Len(inputs) |->
             Path(dir, stem(ThreddsNames[inputs[k].url.thredds])
                           \o <<"_", "sub", ".nc">>)]
    ELSE <<>>

\* log_file_path(process)
log_file_path(dir) == Path(dir, <<"log", ".txt">>)

\* one call of write_log; "" and -1 stand for an argument left to None
LogEntry(message, process_step, subtask_percentage) ==
    [message |-> message, process_step |-> process_step,
     subtask_percentage |-> subtask_percentage]

\* make_ensemble(indices_files, ensemble_percentiles) and the attribute set
\* on its result
make_ensemble(files, inputs) ==
    [dims |-> {"time", "lat", "lon"}, files |-> files,
     source_datasets |-> [k \in 1..Len(inputs) |-> inputs[k].url]]

\* xr.concat(ensembles, dim=xr.DataArray(rcps, dims=('rcp',), name='rcp'))
xr_concat(objs, new_dim, coords) ==
    [dims |-> objs[1].dims \cup {new_dim}, dim |-> new_dim, coords |-> coords,
     objs |-> objs]

\* a result that is concatenated whatever the number of rcps
result_concat_always(objs, rcps) == xr_concat(objs, "rcp", rcps)

\* the ensemble that is serialized
result(objs, rcps) ==
    IF Len(rcps) > 1 THEN xr_concat(objs, "rcp", rcps) ELSE objs[1]

\* a loop over input_groups that stops after the first group
inputs_done_after_first(k, input_sets) == k >= 1 \/ k >= Len(input_sets)

\* `for n, inputs in enumerate(input_groups)` is over
inputs_done(k, input_sets) == k >= Len(input_sets)

\* a test of subsetted_files that never raises
no_data_ignored(files) == FALSE

\* `if not subsetted_files`
no_data(files) == files = <<>>

\* an archive of the CSV file alone
zip_members_csv_only(metadata_file, ensemble_csv) == <<ensemble_csv>>

\* the files given to zip_files
zip_members(metadata_file, ensemble_csv) == <<metadata_file, ensemble_csv>>

\* Path(process.workdir) when the handler is entered
base_work_dir == <<"workdir">>

Event(step, k, m) == [step |-> step, rcp |-> k, n |-> m]

(***************************************************************************)
(* ensemble_common_handler: one action per step of the pipeline            *)
(***************************************************************************)
HandlerInit ==
    /\ request \in Requests
    /\ parameters \in HandlerIndicators
    /\ workdir = base_work_dir
    /\ status_percentage_steps = StatusPercentageSteps
    /\ hpc = "start"
    /\ rpos = 1 /\ output_filename = <<>> /\ netcdf_inputs = <<>>
    /\ subsetted_files = <<>> /\ subsetted_intermediate_files = <<>>
    /\ input_groups = <<>> /\ index_n = 0 /\ indices_files = <<>>
    /\ output_basename = <<>> /\ ensembles = <<>> /\ ensemble = <<>>
    /\ response = [output |-> [file |-> None], output_log |-> [file |-> None]]
    /\ log = <<>> /\ trace = <<>> /\ stored = <<>>
    /\ FileCallsIdle

\* the statements before the loop over the rcps
HandlerStart ==
    /\ hpc = "start"
    /\ status_percentage_steps' =
          IF request.output_format = "csv" THEN status_percentage_steps
          ELSE del_key(status_percentage_steps, "convert_to_csv")
    /\ log' = Append(log, LogEntry("Processing started", "start", -1))
    /\ ensembles' = <<>>
    /\ rpos' = 1
    /\ hpc' = "for rcp"
    /\ UNCHANGED <<request, rcpVars, ensemble, response, trace, stored,
                   filesVars, discoveryVars, subVars, unitVars>>

\* one working directory for every rcp
shared_work_dir(base, r) == base

\* work_dir = base_work_dir / rcp
rcp_work_dir(base, r) == base \o <<r>>

\* the start of one iteration of `for rcp in rcps`, up to get_datasets
HandlerFetch ==
    /\ hpc = "for rcp"
    /\ rpos <= Len(request.rcp)
    /\ LET r == request.rcp[rpos]
           work_dir == rcp_work_dir(base_work_dir, r)
       IN  /\ workdir' = work_dir
           /\ log' = Append(log, LogEntry("Fetching datasets", "", -1))
           /\ output_filename' = make_output_filename(request, Some(r))
           /\ netcdf_inputs' =
                  get_datasets(work_dir,
                               CHOOSE q \in Orders(source_variable_names) : TRUE,
                               r, request.models)
    /\ trace' = Append(trace, Event("discovery", rpos, 0))
    /\ hpc' = "subset"
    /\ UNCHANGED <<request, status_percentage_steps, rpos, subsetted_files,
                   subsetted_intermediate_files, input_groups, index_n,
                   indices_files, output_basename, ensembles, ensemble,
                   response, stored, files_list, parameters, fpc, caller,
                   mfgVars, civVars, miiVars, discoveryVars, subVars, unitVars>>

\* subset_function and the test of its result
HandlerSubset ==
    /\ hpc = "subset"
    /\ log' = Append(log, LogEntry("Running subset", "subset", -1))
    /\ \E produced \in BOOLEAN :
          LET files == subset_function(workdir, netcdf_inputs, produced)
          IN  /\ subsetted_files' = files
              /\ hpc' = IF no_data(files) THEN "ProcessError"
                        ELSE "compute_intermediate_variables"
    /\ trace' = Append(trace, Event("subsetting", rpos, 0))
    /\ UNCHANGED <<request, status_percentage_steps, rpos, output_filename,
                   netcdf_inputs, subsetted_intermediate_files, input_groups,
                   index_n, indices_files, output_basename, ensembles,
                   ensemble, response, stored, filesVars, discoveryVars,
                   subVars, unitVars>>

\* compute_intermediate_variables(subsetted_files, dataset_input_names,
\* process.workdir) is called
HandlerComputeIntermediate ==
    /\ hpc = "compute_intermediate_variables"
    /\ fpc = "idle"
    /\ files_list' = subsetted_files
    /\ MfgEnter(subsetted_files)
    /\ caller' = "compute_intermediate_variables"
    /\ fpc' = "make_file_groups"
    /\ trace' = Append(trace, Event("intermediate", rpos, 0))
    /\ hpc' = "in compute_intermediate_variables"
    /\ UNCHANGED <<request, status_percentage_steps, rpos, rcpVars, ensembles,
                   ensemble, response, log, stored, parameters, workdir,
                   civVars, miiVars, discoveryVars, subVars, unitVars>>

\* compute_intermediate_variables raised: the handler does not catch it
HandlerRaised ==
    /\ hpc = "in compute_intermediate_variables"
    /\ fpc \in {"RuntimeError", "KeyError"}
    /\ hpc' = fpc
    /\ UNCHANGED <<request, status_percentage_steps, rpos, rcpVars, ensembles,
                   ensemble, response, log, trace, stored, filesVars,
                   discoveryVars, subVars, unitVars>>

\* compute_intermediate_variables returned: make_indicator_inputs is called
HandlerMakeInputs ==
    /\ hpc = "in compute_intermediate_variables"
    /\ fpc = "computed"
    /\ subsetted_intermediate_files' = output_files_list
    /\ log' = Append(log, LogEntry("Computing indices", "compute_indices", -1))
    /\ MiiCall(output_files_list)
    /\ hpc' = "make_indicator_inputs"
    /\ UNCHANGED <<request, status_percentage_steps, rpos, output_filename,
                   netcdf_inputs, subsetted_files, input_groups, index_n,
                   indices_files, output_basename, ensembles, ensemble,
                   response, trace, stored, files_list, parameters, workdir,
                   civVars, discoveryVars, subVars, unitVars>>

\* make_indicator_inputs returned
HandlerInputs ==
    /\ hpc = "make_indicator_inputs"
    /\ fpc = "done"
    /\ input_groups' = input_list
    /\ index_n' = 0
    /\ indices_files' = <<>>
    /\ fpc' = "idle"
    /\ hpc' = "for inputs"
    /\ UNCHANGED <<request, status_percentage_steps, rpos, output_filename,
                   netcdf_inputs, subsetted_files, subsetted_intermediate_files,
                   output_basename, ensembles, ensemble, response, log, trace,
                   stored, files_list, parameters, workdir, caller, mfgVars,
                   civVars, miiVars, discoveryVars, subVars, unitVars>>

\* output_name of the index file of `inputs`: the name of the file of the
\* last accepted variable of the inputs, in the iteration order of the set,
\* with the variable replaced by the identifier of the process
output_names(inputs, k) ==
    IF accepted_variables \cap DOMAIN inputs = {}
    THEN {output_filename \o <<"_">> \o identifier \o <<"_", ToString(k), ".nc">>}
    ELSE {replace_all(inputs[variable].file.name, variable, identifier) :
             variable \in accepted_variables \cap DOMAIN inputs}

\* one iteration of `for n, inputs in enumerate(input_groups)`
HandlerComputeIndex ==
    /\ hpc = "for inputs"
    /\ ~inputs_done(index_n, input_groups)
    /\ LET inputs == input_groups[index_n + 1]
           n_groups == Len(input_groups)
       IN  /\ log' = Append(log, LogEntry("Computing indices for file", "",
                                          (index_n * 100) \div n_groups))
           /\ \E output_name \in output_names(inputs, index_n) :
                 LET output_path == Path(workdir, output_name)
                 IN  /\ stored' = Append(stored, [file |-> output_path,
                                                  format |-> "netcdf",
                                                  content |-> inputs])
                     /\ indices_files' = Append(indices_files, output_path)
    /\ trace' = Append(trace, Event("index", rpos, index_n))
    /\ index_n' = index_n + 1
    /\ UNCHANGED <<request, status_percentage_steps, hpc, rpos, output_filename,
                   netcdf_inputs, subsetted_files, subsetted_intermediate_files,
                   input_groups, output_basename, ensembles, ensemble,
                   response, filesVars, discoveryVars, subVars, unitVars>>

\* the end of the iteration of `for rcp in rcps`: make_ensemble
HandlerEnsemble ==
    /\ hpc = "for inputs"
    /\ inputs_done(index_n, input_groups)
    /\ output_basename' = Path(workdir, output_filename \o <<"_", "ensemble">>)
    /\ ensembles' = Append(ensembles, make_ensemble(indices_files, netcdf_inputs))
    /\ trace' = Append(trace, Event("ensemble", rpos, 0))
    /\ rpos' = rpos + 1
    /\ hpc' = "for rcp"
    /\ UNCHANGED <<request, status_percentage_steps, output_filename,
                   netcdf_inputs, subsetted_files, subsetted_intermediate_files,
                   input_groups, index_n, indices_files, ensemble, response,
                   log, stored, filesVars, discoveryVars, subVars, unitVars>>

\* after the loop: the working directory is set back, and the ensembles are
\* concatenated when there is more than one rcp
HandlerConcat ==
    /\ hpc = "for rcp"
    /\ rpos > Len(request.rcp)
    /\ workdir' = base_work_dir
    /\ LET concatenated == result(ensembles, request.rcp)
       IN  /\ ensemble' = concatenated
           /\ trace' = IF concatenated = ensembles[1] THEN trace
                       ELSE Append(trace, Event("concatenation", rpos, 0))
    /\ hpc' = "serialize"
    /\ UNCHANGED <<request, status_percentage_steps, rpos, rcpVars, ensembles,
                   response, log, stored, files_list, parameters, fpc, caller,
                   mfgVars, civVars, miiVars, discoveryVars, subVars, unitVars>>

\* the ensemble is written, as a zip of a CSV file and its metadata or as a
\* NetCDF file, and the outputs of the response are set
HandlerSerialize ==
    /\ hpc = "serialize"
    /\ LET ensemble_csv == with_suffix(output_basename, ".csv")
           metadata_file ==
               Path(output_basename.dir,
                    stem(ensemble_csv.name) \o <<"_", "metadata", ".txt">>)
           ensemble_zip == Path(workdir, output_filename \o <<".zip">>)
           ensemble_nc == with_suffix(output_basename, ".nc")
           ensemble_output ==
               IF request.output_format = "csv" THEN ensemble_zip
               ELSE ensemble_nc
       IN  /\ stored' =
                 IF request.output_format = "csv"
                 THEN stored \o
                      << [file |-> ensemble_csv, format |-> "csv",
                          content |-> ensemble],
                         [file |-> metadata_file, format |-> "text",
                          content |-> ensemble],
                         [file |-> ensemble_zip, format |-> "zip",
                          content |-> zip_members(metadata_file, ensemble_csv)] >>
                 ELSE Append(stored, [file |-> ensemble_nc, format |-> "netcdf",
                                      content |-> ensemble])
           /\ response' = [output |-> [file |-> Some(ensemble_output)],
                           output_log |->
                               [file |-> Some(log_file_path(workdir))]]
    /\ trace' = Append(trace, Event("serialization", rpos, 0))
    /\ log' = Append(log, LogEntry("Processing finished successfully", "done", -1))
    /\ hpc' = "returned"
    /\ UNCHANGED <<request, status_percentage_steps, rpos, rcpVars, ensembles,
                   ensemble, filesVars, discoveryVars, subVars, unitVars>>

HandlerNext ==
    \/ HandlerStart
    \/ HandlerFetch
    \/ HandlerSubset
    \/ HandlerComputeIntermediate
    \/ MakeFileGroupsFile
    \/ CivGroupsReady
    \/ CivGroupStart
    \/ CivCompute
    \/ CivRaise
    \/ CivGroupDone
    \/ CivReturn
    \/ HandlerRaised
    \/ HandlerMakeInputs
    \/ MiiGroupsReady
    \/ HandlerInputs
    \/ HandlerComputeIndex
    \/ HandlerEnsemble
    \/ HandlerConcat
    \/ HandlerSerialize

InitHandler == HandlerInit /\ DiscoveryIdle /\ SubIdle /\ UnitIdle

SpecHandler == InitHandler /\ [][HandlerNext]_vars

(***************************************************************************)
(* ensemble_common_handler: the claims                                     *)
(***************************************************************************)
\* the steps recorded for the k-th requested rcp, in the order they happened
StepsOf(k) == SelectSeq(trace, LAMBDA e : e.rcp = k)
CountOf(step) == Cardinality({i \in 1..Len(trace) : trace[i].step = step})
NRcps == Len(request.rcp)

\* the steps of one rcp follow each other as discovery, subsetting,
\* intermediate variables, the indices 0, 1, ... and the ensemble
InPipelineOrder(steps) ==
    \A p \in 1..Len(steps) :
        /\ p = 1 => steps[p].step = "discovery"
        /\ p = 2 => steps[p].step = "subsetting"
        /\ p = 3 => steps[p].step = "intermediate"
        /\ p >= 4 => \/ steps[p].step = "index" /\ steps[p].n = p - 4
                     \/ steps[p].step = "ensemble" /\ p = Len(steps)

\* all the steps of one rcp were done, with m index computations
CompleteSteps(steps, m) ==
    /\ Len(steps) = m + 4
    /\ InPipelineOrder(steps)
    /\ steps[Len(steps)].step = "ensemble"

Finished(k) ==
    StepsOf(k) # <<>> /\ StepsOf(k)[Len(StepsOf(k))].step = "ensemble"

\* what the handler does in every state of a run: the rcps are taken in
\* request order, the steps of an rcp in pipeline order, an rcp starts when
\* the one before is finished, and what follows the loop comes after the
\* last rcp, concatenation before serialization
C3_Order ==
    /\ \A i, j \in 1..Len(trace) : i < j => trace[i].rcp <= trace[j].rcp
    /\ \A k \in 1..NRcps :
          /\ InPipelineOrder(StepsOf(k))
          /\ k > 1 /\ StepsOf(k) # <<>> => Finished(k - 1)
    /\ \A i \in 1..Len(trace) :
          /\ trace[i].rcp \in 1..(NRcps + 1)
          /\ trace[i].rcp = NRcps + 1
                 <=> trace[i].step \in {"concatenation", "serialization"}
    /\ StepsOf(NRcps + 1) # <<>> => Finished(NRcps)
    /\ StepsOf(NRcps + 1) \in
          { <<>>, <<Event("concatenation", NRcps + 1, 0)>>,
            <<Event("serialization", NRcps + 1, 0)>>,
            <<Event("concatenation", NRcps + 1, 0),
              Event("serialization", NRcps + 1, 0)>> }
    /\ hpc = "subset" =>
          /\ trace[Len(trace)] = Event("discovery", rpos, 0)
          /\ workdir = base_work_dir \o <<request.rcp[rpos]>>
          /\ \A i \in 1..Len(netcdf_inputs) :
                \E t \in 1..Len(ThreddsNames[netcdf_inputs[i].url.thredds]) :
                    ThreddsNames[netcdf_inputs[i].url.thredds][t]
                        = request.rcp[rpos]
    /\ hpc = "for rcp" /\ rpos > 1 =>
          CompleteSteps(StepsOf(rpos - 1), Len(input_groups))

\* every rcp went through all its steps
AllRcpsDone == \A k \in 1..NRcps : Finished(k)

\* the statement with concatenation done exactly once in every run
C3_AsStated ==
    /\ C3_Order
    /\ hpc = "returned" =>
          /\ AllRcpsDone
          /\ CountOf("concatenation") = 1
          /\ CountOf("serialization") = 1

\* C3: for each requested rcp, in request order, the handler does dataset
\* discovery, subsetting, intermediate-variable computation, index
\* computation for every input group and ensemble building, each rcp being
\* finished before the next one starts; in a run that returns, serialization
\* happens exactly once after the last rcp, and concatenation exactly once
\* before it when more than one rcp is requested, and not at all for one rcp.
C3_Pipeline ==
    /\ C3_Order
    /\ hpc = "returned" =>
          /\ AllRcpsDone
          /\ CountOf("concatenation") = (IF NRcps > 1 THEN 1 ELSE 0)
          /\ CountOf("serialization") = 1

\* a run of three rcps returned, one of them with two input groups
C3_Witness ==
    /\ hpc = "returned"
    /\ NRcps = 3
    /\ CountOf("concatenation") = 1
    /\ CountOf("index") >= 4

\* C4: one ensemble is built per requested rcp, in request order, from the
\* index files and the data sets of that rcp; the result is their
\* concatenation along a new dimension "rcp" whose coordinates are the
\* requested rcps in request order when more than one rcp is requested, and
\* the ensemble of the rcp, without an "rcp" dimension, when one is.
C4_Ensembles ==
    /\ Len(ensembles) = CountOf("ensemble")
    /\ Len(ensembles) <= NRcps
    /\ \A k \in 1..Len(ensembles) :
          /\ "rcp" \notin ensembles[k].dims
          /\ ensembles[k].files # <<>>
          /\ \A i \in 1..Len(ensembles[k].files) :
                ensembles[k].files[i].dir = base_work_dir \o <<request.rcp[k]>>
          /\ \A i \in 1..Len(ensembles[k].source_datasets) :
                \E t \in 1..Len(ThreddsNames[ensembles[k].source_datasets[i].thredds]) :
                    ThreddsNames[ensembles[k].source_datasets[i].thredds][t]
                        = request.rcp[k]
    /\ hpc \in {"serialize", "returned"} =>
          /\ Len(ensembles) = NRcps
          /\ IF NRcps > 1
             THEN /\ ensemble.dims = ensembles[1].dims \cup {"rcp"}
                  /\ ensemble.dim = "rcp"
                  /\ ensemble.coords = request.rcp
                  /\ ensemble.objs = ensembles
             ELSE /\ ensemble = ensembles[1]
                  /\ "rcp" \notin ensemble.dims

\* rcp85 then rcp45 were requested: the result has them in that order
C4_Witness ==
    /\ hpc = "returned"
    /\ request.rcp = <<"rcp85", "rcp45">>
    /\ ensemble.coords = <<"rcp85", "rcp45">>

\* one rcp was requested: the result is its ensemble
C4_WitnessSingle ==
    /\ hpc = "returned"
    /\ NRcps = 1
    /\ ensemble = ensembles[1]

StoredAt(path) == {i \in 1..Len(stored) : stored[i].file = path}
FormatOf(path) == stored[CHOOSE i \in StoredAt(path) : TRUE].format
ContentOf(path) == stored[CHOOSE i \in StoredAt(path) : TRUE].content

\* C5: when the handler returns, the output "output" is one file that was
\* written once: for the output format "csv" a zip archive of exactly two
\* entries, the metadata text file and the CSV file of the result, and
\* otherwise a NetCDF file of the result; "output_log" is the log file of the
\* process.
C5_Outputs ==
    hpc = "returned" =>
        /\ ~response.output.file.isNone
        /\ Cardinality(StoredAt(response.output.file.val)) = 1
        /\ response.output_log.file = Some(log_file_path(base_work_dir))
        /\ IF request.output_format = "csv"
           THEN LET members == ContentOf(response.output.file.val)
                IN  /\ FormatOf(response.output.file.val) = "zip"
                    /\ Len(members) = 2
                    /\ members[1] # members[2]
                    /\ Cardinality(StoredAt(members[1])) = 1
                    /\ FormatOf(members[1]) = "text"
                    /\ ContentOf(members[1]) = ensemble
                    /\ Cardinality(StoredAt(members[2])) = 1
                    /\ FormatOf(members[2]) = "csv"
                    /\ ContentOf(members[2]) = ensemble
           ELSE /\ FormatOf(response.output.file.val) = "netcdf"
                /\ ContentOf(response.output.file.val) = ensemble

\* a request for csv returned with two rcps
C5_Witness ==
    /\ hpc = "returned"
    /\ request.output_format = "csv"
    /\ NRcps = 2
    /\ FormatOf(response.output.file.val) = "zip"

\* a request for netcdf returned
C5_WitnessNetcdf ==
    /\ hpc = "returned"
    /\ request.output_format = "netcdf"
    /\ FormatOf(response.output.file.val) = "netcdf"

\* C6: when subsetting yields no file for an rcp the handler raises
\* ProcessError ("No data was produced when subsetting using the provided
\* bounds.") at that point: subsetting is the last step done, no intermediate
\* variable and no index is computed and no ensemble is built for that rcp,
\* no later rcp is processed, nothing more happens, and no output of the
\* response is set.
C6_NoData ==
    /\ (trace # <<>> /\ trace[Len(trace)].step = "subsetting"
           /\ subsetted_files = <<>>) => hpc = "ProcessError"
    /\ hpc = "ProcessError" =>
          /\ trace[Len(trace)] = Event("subsetting", rpos, 0)
          /\ subsetted_files = <<>>
          /\ \A i \in 1..Len(trace) :
                /\ trace[i].rcp <= rpos
                /\ trace[i].rcp = rpos
                       => trace[i].step \in {"discovery", "subsetting"}
          /\ Len(ensembles) = rpos - 1
          /\ response.output.file.isNone
          /\ response.output_log.file.isNone
          /\ ~ENABLED HandlerNext

\* the first rcp was processed and the subset of the second one is empty,
\* although data sets were found for it
C6_Witness ==
    /\ hpc = "ProcessError"
    /\ rpos = 2
    /\ NRcps = 3
    /\ netcdf_inputs # <<>>
    /\ Len(ensembles) = 1

(***************************************************************************)
(* make_output_filename as a function of the inputs of a request           *)
(***************************************************************************)
\* a dict with the key k when the optional value v is given
opt_input(k, v) == IF v.isNone THEN <<>> ELSE (k :> v.val)

\* lat and lon are strings (wpsio.lat, wpsio.lon); lat0, lon0, lat1 and lon1
\* are floats (wpsio.lat0 ...); rcp is one of the allowed values
LatInputs == {None, Some(Str(<<0>>)), Some(Str(<<45500, 46000>>))}
LonInputs == {None, Some(Str(<<-72250, -71000>>))}
Lat0Inputs == {None, Some(Float(0)), Some(Float(45000))}
Lon0Inputs == {None, Some(Float(0)), Some(Float(-72500))}
Lat1Inputs == {None, Some(Float(46000))}
Lon1Inputs == {None, Some(Float(0)), Some(Float(-71000))}
RcpInputs == {None, Some("rcp45")}
RcpArguments == {None, Some("rcp85")}

NameInputs ==
    { opt_input("lat", a) @@ opt_input("lon", b) @@ opt_input("lat0", c)
        @@ opt_input("lon0", d) @@ opt_input("lat1", e)
        @@ opt_input("lon1", f) @@ opt_input("rcp", g) :
      a \in LatInputs, b \in LonInputs, c \in Lat0Inputs, d \in Lon0Inputs,
      e \in Lat1Inputs, f \in Lon1Inputs, g \in RcpInputs }

nameFrame == <<pipelineVars, chunkVars, opendapVars, bboxVars>>

NameInit ==
    /\ name_inputs \in NameInputs
    /\ name_rcp \in RcpArguments
    /\ name_output = None

\* name = make_output_filename(process, inputs, rcp)
MakeOutputFilename ==
    /\ name_output = None
    /\ name_output' = Some(make_output_filename(name_inputs, name_rcp))
    /\ UNCHANGED <<name_inputs, name_rcp, nameFrame>>

NameNext == MakeOutputFilename

PipelineIdle == DiscoveryIdle /\ SubIdle /\ FilesIdle /\ HandlerIdle

InitName ==
    NameInit /\ PipelineIdle /\ ChunkIdle /\ OpendapIdle /\ BboxIdle

SpecName == InitName /\ [][NameNext]_vars

\* the input k is given in the request
given(inputs, k) == k \in DOMAIN inputs

\* the first float of the data of an input, with three decimals
first_float(data) ==
    fixed3(IF is_str(data) THEN Head(data.str) ELSE data.float)

\* the coordinate parts of the name for the inputs that are given
StatedPoint(inputs) ==
    IF given(inputs, "lat") /\ given(inputs, "lon")
    THEN <<first_float(inputs["lat"]), first_float(inputs["lon"])>>
    ELSE IF given(inputs, "lat0") /\ given(inputs, "lon0")
    THEN <<first_float(inputs["lat0"]), first_float(inputs["lon0"])>>
    ELSE <<>>

StatedCorner(inputs) ==
    IF given(inputs, "lat1") /\ given(inputs, "lon1")
    THEN <<first_float(inputs["lat1"]), first_float(inputs["lon1"])>>
    ELSE <<>>

StatedRcp(inputs, r) ==
    IF ~r.isNone THEN << <<r.val>> >>
    ELSE IF given(inputs, "rcp") THEN << <<inputs["rcp"]>> >>
    ELSE <<>>

\* C11 as stated: the name is the "_"-joined identifier, lat and lon (lat0 and
\* lon0 when those are not given), lat1 and lon1, and the rcp, where the rcp is
\* the argument when one is passed and the rcp input of the request otherwise.
C11_AsStated ==
    ~name_output.isNone =>
        name_output.val =
            join(<<identifier>> \o StatedPoint(name_inputs)
                    \o StatedCorner(name_inputs)
                    \o StatedRcp(name_inputs, name_rcp))

\* a float input that is given with the value 0.0
ZeroFloat(inputs, k) == given(inputs, k) /\ inputs[k] = Float(0)

\* C11: the stated name is returned for every request no float input of which
\* is 0.0.
C11_NonZero ==
    (/\ ~name_output.isNone
     /\ \A k \in {"lat0", "lon0", "lat1", "lon1"} : ~ZeroFloat(name_inputs, k))
        => C11_AsStated

\* a box whose corner lies on the equator is named without that corner
C11_Witness ==
    /\ ~name_output.isNone
    /\ ~given(name_inputs, "lat") /\ ~given(name_inputs, "lon")
    /\ ZeroFloat(name_inputs, "lat0")
    /\ given(name_inputs, "lon0") /\ ~ZeroFloat(name_inputs, "lon0")
    /\ given(name_inputs, "lat1") /\ given(name_inputs, "lon1")
    /\ ~ZeroFloat(name_inputs, "lon1")
    /\ name_rcp = Some("rcp85")
    /\ name_output.val =
           join(<<identifier, fixed3(46000), fixed3(-71000), <<"rcp85">> >>)

(***************************************************************************)
(* chunk_dataset (finch/processes/base.py): one step per pass of the loop  *)
(* `for dim in cycle(chunks)`.  The dimensions are numbered in the order   *)
(* of ds.sizes; halved counts the passes made on each dimension.           *)
(***************************************************************************)
MaxDims == 3
MaxDimSize == 5
MaxMaxSize == 8
MaxHalvings == 4

\* reduce(mul, chunks.values())
RECURSIVE chunk_size(_)
chunk_size(cs) == IF cs = <<>> THEN 1 ELSE Head(cs) * chunk_size(Tail(cs))

max(a, b) == IF a >= b THEN a ELSE b

\* chunks[dim] = chunks[dim] // 2, without the floor of 1
halve_unbounded(cs, d) == [cs EXCEPT ![d] = cs[d] \div 2]

\* chunks[dim] = max(chunks[dim] // 2, 1)
halve(cs, d) == [cs EXCEPT ![d] = max(cs[d] \div 2, 1)]

\* the dimension after d in cycle(chunks)
next_dim(cs, d) == IF d = Len(cs) THEN 1 ELSE d + 1

\* the loop of chunk_dataset run to its end, from dimension d on
RECURSIVE chunk_loop(_, _, _)
chunk_loop(cs, d, limit) ==
    IF cs = <<>> \/ chunk_size(cs) < limit THEN cs
    ELSE chunk_loop(halve(cs, d), next_dim(cs, d), limit)

\* chunk_dataset(ds, max_size) for a dataset of the given sizes
chunk_dataset(ds_sizes, limit) == chunk_loop(ds_sizes, 1, limit)

DimSizes == UNION {[1..k -> 0..MaxDimSize] : k \in 0..MaxDims}

chunkFrame == <<pipelineVars, nameVars, opendapVars, bboxVars>>

\* chunks = dict(ds.sizes)
ChunkInit ==
    /\ sizes \in DimSizes
    /\ max_size \in 1..MaxMaxSize
    /\ chunks = sizes
    /\ dim = 1
    /\ halved = [k \in 1..Len(sizes) |-> 0]
    /\ chunk_pc = "loop"

\* one pass of the loop that does not break
ChunkHalve ==
    /\ chunk_pc = "loop"
    /\ chunks # <<>>
    /\ ~(chunk_size(chunks) < max_size)
    /\ chunks' = halve(chunks, dim)
    /\ dim' = next_dim(chunks, dim)
    /\ halved' = [halved EXCEPT ![dim] = IF @ < MaxHalvings THEN @ + 1 ELSE @]
    /\ UNCHANGED <<sizes, max_size, chunk_pc, chunkFrame>>

\* break (or the end of a cycle over no dimension), then return chunks
ChunkReturn ==
    /\ chunk_pc = "loop"
    /\ chunks = <<>> \/ chunk_size(chunks) < max_size
    /\ chunk_pc' = "returned"
    /\ UNCHANGED <<sizes, max_size, chunks, dim, halved, chunkFrame>>

ChunkNext == ChunkHalve \/ ChunkReturn

InitChunk ==
    ChunkInit /\ PipelineIdle /\ NameIdle /\ OpendapIdle /\ BboxIdle

SpecChunk == InitChunk /\ [][ChunkNext]_vars

\* the interpreter keeps running the loop
SpecChunkFair == SpecChunk /\ WF_vars(ChunkNext)

\* C12 as stated: for a dataset with dimensions of any sizes and a max_size
\* of at least 1, chunk_dataset returns, with chunks whose product is below
\* max_size.
C12_AsStated ==
    (sizes # <<>> /\ max_size >= 1)
        => <>(chunk_pc = "returned" /\ chunk_size(chunks) < max_size)

\* every size of the dataset is at least 1
Positive(ds_sizes) == \A k \in 1..Len(ds_sizes) : ds_sizes[k] >= 1

\* C12: with a max_size of at least 2 and at least one dimension,
\* chunk_dataset returns chunks whose product is below max_size.
C12_Returns ==
    (chunk_pc = "loop" /\ max_size >= 2 /\ sizes # <<>>)
        ~> (chunk_pc = "returned" /\ chunk_size(chunks) < max_size)

\* max_size = 1 and no empty dimension: every chunk is 1, the product is 1,
\* and the loop goes on
C12_Witness ==
    /\ chunk_pc = "loop" /\ max_size = 1 /\ sizes # <<>> /\ Positive(sizes)
    /\ \A k \in 1..Len(chunks) : chunks[k] = 1 /\ halved[k] = MaxHalvings
    /\ ENABLED ChunkHalve /\ ~ENABLED ChunkReturn

\* a size floor-halved k times, never below 1
RECURSIVE halve_times(_, _)
halve_times(size, k) ==
    IF k = 0 THEN size ELSE max(halve_times(size, k - 1) \div 2, 1)

\* C20: the chunks returned are the sizes floor-halved as many times as the
\* loop passed on their dimension and never reduced below 1; the passes of two
\* dimensions differ by at most one, the earlier dimension having the extra
\* pass; sizes whose product is below max_size are returned unchanged.
C20_Halving ==
    chunk_pc = "returned" =>
        /\ \A k \in 1..Len(sizes) :
              /\ chunks[k] = halve_times(sizes[k], halved[k])
              /\ chunks[k] >= 1 \/ chunks[k] = sizes[k]
        /\ \A i, j \in 1..Len(sizes) :
              i < j => halved[i] - halved[j] \in {0, 1}
        /\ chunk_size(sizes) < max_size => chunks = sizes

\* three dimensions, two passes on the first two and one on the third; the
\* first dimension stays at 1 and the second is halved down to 1
C20_Witness ==
    /\ chunk_pc = "returned"
    /\ sizes = <<1, 5, 5>> /\ max_size = 4
    /\ halved = <<2, 2, 1>>
    /\ chunks = <<1, 1, 2>>

(***************************************************************************)
(* FinchProcess.try_opendap (finch/processes/base.py)                      *)
(***************************************************************************)
\* the urls of test_is_opendap_url, by what they are
UrlKinds ==
    {"dodsC", "fileServer", "opendap_no_header", "invalid_schema", "web_page",
     "missing_schema"}

\* is_opendap_url(url): the answers test_is_opendap_url asserts
is_opendap_url(url) == url.kind \in {"dodsC", "opendap_no_header"}

\* max_size=1000000 of the call of chunk_dataset
OpendapMaxSize == 1000000

\* the sizes of the dimensions of the datasets behind the urls
DatasetSizes ==
    {<<10, 10>>, <<2000, 1000>>, <<1000000>>, <<999999>>, <<1000, 1000, 2>>,
     <<3, 1000, 1000>>}

\* the resources: a url and the dataset it gives access to
Resources == [url : [kind : UrlKinds, id : {1, 2}], sizes : DatasetSizes]

\* the chunks argument: None, an empty dict or one chunk size per dimension
ChunksArguments(ds_sizes) ==
    {None, Some(<<>>), Some([k \in 1..Len(ds_sizes) |-> 5])}

\* xr.open_dataset(url, chunks=chunks)
open_dataset_url(input, cs) ==
    [opened |-> "url", from |-> input.url, sizes |-> input.sizes,
     chunks |-> IF TruthyList(cs) THEN cs.val ELSE <<>>]

\* xr.open_dataset(input.file)
open_dataset_file(input) ==
    [opened |-> "file", from |-> input.url, sizes |-> input.sizes,
     chunks |-> <<>>]

\* ds.chunk(chunks)
rechunk(ds, cs) == [ds EXCEPT !.chunks = cs]

\* try_opendap without the test of the url
try_opendap_url_only(input, cs) ==
    [ds |-> IF ~TruthyList(cs)
            THEN rechunk(open_dataset_url(input, cs),
                         chunk_dataset(input.sizes, OpendapMaxSize))
            ELSE open_dataset_url(input, cs),
     log |-> << <<"Opened dataset as an OPeNDAP url", input.url>> >>]

\* self.try_opendap(input, chunks): the dataset returned and the lines written
\* to the log
try_opendap(input, cs) ==
    IF is_opendap_url(input.url)
    THEN [ds |-> IF ~TruthyList(cs)
                 THEN rechunk(open_dataset_url(input, cs),
                              chunk_dataset(input.sizes, OpendapMaxSize))
                 ELSE open_dataset_url(input, cs),
          log |-> << <<"Opened dataset as an OPeNDAP url", input.url>> >>]
    ELSE [ds |-> open_dataset_file(input),
          log |-> << <<"Downloading dataset for url", input.url>> >>]

opendapFrame == <<pipelineVars, nameVars, chunkVars, bboxVars>>

OpendapInit ==
    /\ od_input \in Resources
    /\ od_chunks \in ChunksArguments(od_input.sizes)
    /\ od_ds = None
    /\ od_log = <<>>
    /\ od_pc = "called"

\* ds = self.try_opendap(input, chunks)
TryOpendap ==
    /\ od_pc = "called"
    /\ od_ds' = Some(try_opendap(od_input, od_chunks).ds)
    /\ od_log' = od_log \o try_opendap(od_input, od_chunks).log
    /\ od_pc' = "returned"
    /\ UNCHANGED <<od_input, od_chunks, opendapFrame>>

OpendapNext == TryOpendap

InitOpendap ==
    OpendapInit /\ PipelineIdle /\ NameIdle /\ ChunkIdle /\ BboxIdle

SpecOpendap == InitOpendap /\ [][OpendapNext]_vars

\* C13: try_opendap returns a dataset for every url.  An OPeNDAP url is opened
\* by url, with the chunks given or, when none are given, with the chunks of
\* chunk_dataset for max_size 1000000, whose product is below 1000000; any
\* other url has its file opened.  One line is written to the log either way.
C13_TryOpendap ==
    od_pc = "returned" =>
        /\ ~od_ds.isNone
        /\ od_ds.val.from = od_input.url
        /\ Len(od_log) = 1
        /\ od_input.url.kind \in {"dodsC", "opendap_no_header"} =>
              /\ od_ds.val.opened = "url"
              /\ TruthyList(od_chunks) => od_ds.val.chunks = od_chunks.val
              /\ ~TruthyList(od_chunks) =>
                    /\ od_ds.val.chunks = chunk_dataset(od_input.sizes, 1000000)
                    /\ chunk_size(od_ds.val.chunks) < 1000000
                    /\ Len(od_ds.val.chunks) = Len(od_input.sizes)
        /\ od_input.url.kind \in
                {"fileServer", "invalid_schema", "web_page", "missing_schema"} =>
              /\ od_ds.val.opened = "file"
              /\ od_log[1][1] = "Downloading dataset for url"

\* a file-server url: the file is opened and one line is logged
C13_Witness ==
    /\ od_pc = "returned"
    /\ od_input.url.kind = "fileServer"
    /\ ~od_ds.isNone /\ od_ds.val.opened = "file"
    /\ Len(od_log) = 1

\* an OPeNDAP url of a 2000 x 1000 dataset, no chunks given: both dimensions
\* are halved once
C13_WitnessChunked ==
    /\ od_pc = "returned"
    /\ od_input.url.kind = "dodsC" /\ od_input.sizes = <<2000, 1000>>
    /\ od_chunks = None
    /\ ~od_ds.isNone /\ od_ds.val.opened = "url"
    /\ od_ds.val.chunks = <<1000, 500>>

(***************************************************************************)
(* SubsetBboxProcess.subset (finch/processes/wps_xsubsetbbox.py).          *)
(* subset_resources runs _subset_function on every resource, on `threads`  *)
(* threads; a thread takes the next resource when it has none.  The        *)
(* request has no start_date, no end_date and no variable.                 *)
(***************************************************************************)
MaxResources == 3
MaxThreads == 2

\* wps_inputs["resource"]: n resources, the second one behind a file server
BboxResources(n) ==
    [i \in 1..n |->
        [url |-> [kind |-> IF i = 2 THEN "fileServer" ELSE "dodsC", id |-> i],
         sizes |-> <<10, 10>>]]

\* the inputs of a request: lon0 and lat0, and lon1 and lat1 when given
BboxInputs ==
    { ("resource" :> BboxResources(n)) @@ ("lon0" :> -72500)
        @@ ("lat0" :> 45000) @@ opt_input("lon1", a) @@ opt_input("lat1", b) :
      n \in 1..MaxResources, a \in {None, Some(-71000)},
      b \in {None, Some(46000)} }

\* start_percentage and end_percentage: the defaults and a narrow range
PercentageRanges == {<<10, 85>>, <<5, 7>>}

\* self.get_input_or_none(wps_inputs, identifier)
get_input_or_none(inputs, k) ==
    IF k \in DOMAIN inputs THEN Some(inputs[k]) ELSE None

\* n_files = len(wps_inputs["resource"])
n_files == Len(bbox_inputs["resource"])

\* any(nones) and not all(nones), for nones = [lat1 is None, lon1 is None]
any_none(a, b) == a.isNone \/ b.isNone
any_not_all(a, b) == (a.isNone \/ b.isNone) /\ ~(a.isNone /\ b.isNone)

\* a Lock that is held by `holder` (0: by no thread) can be acquired
lock_ignored(holder) == TRUE
lock_free(holder) == holder = 0

\* self.try_opendap(resource, decode_times=time_subset)
try_opendap_decode(input, decode_times) == try_opendap(input, None)

\* the lines try_opendap writes, as entries of the log
opendap_entries(input) ==
    [k \in 1..Len(try_opendap_decode(input, FALSE).log) |->
        [kind |-> "opendap",
         message |-> try_opendap_decode(input, FALSE).log[k]]]

\* start_percentage + int((count - 1) / n_files * (end_percentage -
\* start_percentage)); for fewer than 15 files the float product is the exact
\* quotient
percentage_of(c, n, first, last) == first + ((c - 1) * (last - first)) \div n

\* subset_gridpoint(dataset, lon=lon0, lat=lat0, start_date, end_date)
subset_gridpoint(ds, lon, lat) ==
    [fn |-> "subset_gridpoint", dataset |-> ds, lon |-> lon, lat |-> lat]

\* subset_bbox(dataset, lon_bnds=[lon0, lon1], lat_bnds=[lat0, lat1], ...)
subset_bbox(ds, lon_bnds, lat_bnds) ==
    [fn |-> "subset_bbox", dataset |-> ds, lon_bnds |-> lon_bnds,
     lat_bnds |-> lat_bnds]

\* the return value of _subset_function for the dataset ds
subset_of(inputs, ds) ==
    IF get_input_or_none(inputs, "lat1").isNone
       /\ get_input_or_none(inputs, "lon1").isNone
    THEN subset_gridpoint(ds, inputs["lon0"], inputs["lat0"])
    ELSE subset_bbox(ds,
                     <<inputs["lon0"], get_input_or_none(inputs, "lon1").val>>,
                     <<inputs["lat0"], get_input_or_none(inputs, "lat1").val>>)

bboxFrame == <<pipelineVars, nameVars, chunkVars, opendapVars>>

BboxInit ==
    /\ bbox_inputs \in BboxInputs
    /\ \E range \in PercentageRanges :
          start_percentage = range[1] /\ end_percentage = range[2]
    /\ threads \in 1..MaxThreads
    /\ count = 0 /\ lock = 0 /\ next_resource = 1
    /\ thread_pc = [t \in 1..threads |-> "idle"]
    /\ thread_resource = [t \in 1..threads |-> 0]
    /\ thread_dataset = [t \in 1..threads |-> None]
    /\ thread_count = [t \in 1..threads |-> 0]
    /\ metalink = [i \in 1..Len(bbox_inputs["resource"]) |-> None]
    /\ bbox_log = <<>>
    /\ bbox_pc = "called"

\* lines 82-97: read the inputs, raise when one of lat1, lon1 is missing
BboxCheck ==
    /\ bbox_pc = "called"
    /\ bbox_pc' = IF any_not_all(get_input_or_none(bbox_inputs, "lat1"),
                                 get_input_or_none(bbox_inputs, "lon1"))
                  THEN "ProcessError" ELSE "running"
    /\ UNCHANGED <<bbox_inputs, start_percentage, end_percentage, threads,
                   count, lock, next_resource, thread_pc, thread_resource,
                   thread_dataset, thread_count, metalink, bbox_log, bboxFrame>>

\* subset_resources gives the next resource to a thread
ThreadTake(t) ==
    /\ bbox_pc = "running"
    /\ thread_pc[t] = "idle"
    /\ next_resource <= n_files
    /\ thread_resource' = [thread_resource EXCEPT ![t] = next_resource]
    /\ next_resource' = next_resource + 1
    /\ thread_pc' = [thread_pc EXCEPT ![t] = "open"]
    /\ UNCHANGED <<bbox_inputs, start_percentage, end_percentage, threads,
                   count, lock, thread_dataset, thread_count, metalink,
                   bbox_log, bbox_pc, bboxFrame>>

\* lines 103-104: dataset = self.try_opendap(resource, ...)
ThreadOpen(t) ==
    /\ thread_pc[t] = "open"
    /\ thread_dataset' =
          [thread_dataset EXCEPT ![t] =
              Some(try_opendap_decode(
                       bbox_inputs["resource"][thread_resource[t]], FALSE).ds)]
    /\ bbox_log' =
          bbox_log
              \o opendap_entries(bbox_inputs["resource"][thread_resource[t]])
    /\ thread_pc' = [thread_pc EXCEPT ![t] = "acquire"]
    /\ UNCHANGED <<bbox_inputs, start_percentage, end_percentage, threads,
                   count, lock, next_resource, thread_resource, thread_count,
                   metalink, bbox_pc, bboxFrame>>

\* line 106: with lock
ThreadAcquire(t) ==
    /\ thread_pc[t] = "acquire"
    /\ lock_free(lock)
    /\ lock' = t
    /\ thread_pc' = [thread_pc EXCEPT ![t] = "load"]
    /\ UNCHANGED <<bbox_inputs, start_percentage, end_percentage, threads,
                   count, next_resource, thread_resource, thread_dataset,
                   thread_count, metalink, bbox_log, bbox_pc, bboxFrame>>

\* line 107, count += 1: the read of count
ThreadLoad(t) ==
    /\ thread_pc[t] = "load"
    /\ thread_count' = [thread_count EXCEPT ![t] = count]
    /\ thread_pc' = [thread_pc EXCEPT ![t] = "store"]
    /\ UNCHANGED <<bbox_inputs, start_percentage, end_percentage, threads,
                   count, lock, next_resource, thread_resource, thread_dataset,
                   metalink, bbox_log, bbox_pc, bboxFrame>>

\* line 107, count += 1: the write of count
ThreadStore(t) ==
    /\ thread_pc[t] = "store"
    /\ count' = thread_count[t] + 1
    /\ thread_pc' = [thread_pc EXCEPT ![t] = "log"]
    /\ UNCHANGED <<bbox_inputs, start_percentage, end_percentage, threads,
                   lock, next_resource, thread_resource, thread_dataset,
                   thread_count, metalink, bbox_log, bbox_pc, bboxFrame>>

\* lines 108-115: the percentage, write_log, and the end of the with block
ThreadLog(t) ==
    /\ thread_pc[t] = "log"
    /\ bbox_log' =
          Append(bbox_log,
                 [kind |-> "subsetting", file |-> count, of |-> n_files,
                  percentage |-> percentage_of(count, n_files,
                                               start_percentage,
                                               end_percentage)])
    /\ lock' = 0
    /\ thread_pc' = [thread_pc EXCEPT ![t] = "subset"]
    /\ UNCHANGED <<bbox_inputs, start_percentage, end_percentage, threads,
                   count, next_resource, thread_resource, thread_dataset,
                   thread_count, metalink, bbox_pc, bboxFrame>>

\* lines 117-129: the subset of the dataset is the result for the resource
ThreadSubset(t) ==
    /\ thread_pc[t] = "subset"
    /\ metalink' =
          [metalink EXCEPT ![thread_resource[t]] =
              Some(subset_of(bbox_inputs, thread_dataset[t].val))]
    /\ thread_pc' = [thread_pc EXCEPT ![t] = "idle"]
    /\ UNCHANGED <<bbox_inputs, start_percentage, end_percentage, threads,
                   count, lock, next_resource, thread_resource, thread_dataset,
                   thread_count, bbox_log, bbox_pc, bboxFrame>>

\* lines 131-135: every resource is done, return metalink
BboxReturn ==
    /\ bbox_pc = "running"
    /\ next_resource > n_files
    /\ \A t \in 1..threads : thread_pc[t] = "idle"
    /\ bbox_pc' = "returned"
    /\ UNCHANGED <<bbox_inputs, start_percentage, end_percentage, threads,
                   count, lock, next_resource, thread_pc, thread_resource,
                   thread_dataset, thread_count, metalink, bbox_log, bboxFrame>>

BboxNext ==
    \/ BboxCheck
    \/ \E t \in 1..threads : ThreadTake(t)
    \/ \E t \in 1..threads : ThreadOpen(t)
    \/ \E t \in 1..threads : ThreadAcquire(t)
    \/ \E t \in 1..threads : ThreadLoad(t)
    \/ \E t \in 1..threads : ThreadStore(t)
    \/ \E t \in 1..threads : ThreadLog(t)
    \/ \E t \in 1..threads : ThreadSubset(t)
    \/ BboxReturn

InitBbox ==
    BboxInit /\ PipelineIdle /\ NameIdle /\ ChunkIdle /\ OpendapIdle

SpecBbox == InitBbox /\ [][BboxNext]_vars

\* the input k of the request is given
BboxGiven(k) == k \in DOMAIN bbox_inputs

\* nothing has been opened, counted, logged or subset
NothingDone ==
    /\ bbox_log = <<>> /\ count = 0 /\ next_resource = 1
    /\ \A t \in 1..threads : thread_dataset[t].isNone
    /\ \A i \in 1..n_files : metalink[i].isNone

\* the dataset the resource i gives access to
DatasetOf(i) ==
    [opened |-> IF bbox_inputs["resource"][i].url.kind = "dodsC"
                THEN "url" ELSE "file",
     from |-> bbox_inputs["resource"][i].url,
     sizes |-> bbox_inputs["resource"][i].sizes,
     chunks |-> IF bbox_inputs["resource"][i].url.kind = "dodsC"
                THEN bbox_inputs["resource"][i].sizes ELSE <<>>]

C14_WitnessPoint ==
    /\ bbox_pc = "returned"
    /\ ~BboxGiven("lat1") /\ ~BboxGiven("lon1")
    /\ n_files = 3
    /\ \A i \in 1..3 : metalink[i].val.fn = "subset_gridpoint"

\* lat1 and lon1, three resources: three boxes
C14_WitnessBox ==
    /\ bbox_pc = "returned"
    /\ BboxGiven("lat1") /\ BboxGiven("lon1")
    /\ n_files = 3
    /\ \A i \in 1..3 : metalink[i].val.fn = "subset_bbox"

\* the entries of the log that read "Subsetting file k of n"
RECURSIVE subsetting_entries(_)
subsetting_entries(entries) ==
    IF entries = <<>> THEN <<>>
    ELSE (IF Head(entries).kind = "subsetting" THEN <<Head(entries)>>
          ELSE <<>>) \o subsetting_entries(Tail(entries))

C15_AsStated ==
    /\ fpc # "KeyError"
    /\ fpc = "RuntimeError" =>
          /\ variables_to_compute # {}
          /\ \A variable \in variables_to_compute : ~computable(variable, group)

\* C15: a pass of the while loop removes exactly one variable from
\* variables_to_compute, or raises RuntimeError and leaves the set as it is.
C15_Progress ==
    [][fpc = "while" =>
          \/ /\ fpc' = "while"
             /\ \E variable \in variables_to_compute :
                   variables_to_compute' = variables_to_compute \ {variable}
          \/ /\ fpc' = "RuntimeError"
             /\ variables_to_compute' = variables_to_compute
             /\ variables_to_compute # {}
          \/ /\ fpc' = "for group"
             /\ variables_to_compute = {}]_vars

\* tasmax is required and the group has a tasmin file only: the call ends
\* with KeyError, on variable_computations["tasmax"]
C15_Witness ==
    /\ fpc = "KeyError"
    /\ caller = "compute_intermediate_variables"
    /\ required_variable_names = {"tasmin", "tasmax"}
    /\ Keys(group) = {"tasmin"}
    /\ variables_to_compute = {"tasmax"}

(***************************************************************************)
(* _bccaqv2_filter: the selection of the models                            *)
(***************************************************************************)
\* C16: with models None or the all-24-models sentinel in any case, the urls
\* returned are those the whole list BCCAQV2_MODELS gives; a list of models
\* gives the urls the same list in another case gives.
C16_AllModels ==
    (dstate = "returned" /\ method = "filename") =>
        /\ (models = None \/ models = Some(<<"24models">>)) =>
              /\ urls = opendap_datasets(catalog, variables, rcp,
                                         Some(BCCAQV2_MODELS))
              /\ urls = opendap_datasets(catalog, variables, rcp,
                                         Some(<<ALL_24_MODELS>>))
              /\ urls = opendap_datasets(catalog, variables, rcp, None)
        /\ models = Some(<<"canesm2", "CCSM4">>) =>
              /\ urls = opendap_datasets(catalog, variables, rcp,
                                         Some(<<"CanESM2", "ccsm4">>))
              /\ urls = opendap_datasets(catalog, variables, rcp,
                                         Some(<<"CANESM2", "CCSM4">>))

\* the sentinel in lower case: the CanESM2 data set is returned, the data
\* set of a model that is not one of the 24 is not
C16_Witness ==
    /\ dstate = "returned" /\ method = "filename"
    /\ models = Some(<<"24models">>)
    /\ variables = None /\ rcp = None
    /\ UrlsOf(catalog) = <<OpendapUrl(1), OpendapUrl(7)>>
    /\ urls = <<OpendapUrl(1)>>

\* the url of the k-th data set of the catalog has been returned
Accepted(k) == catalog[k].access_urls.OPENDAP \in Range(urls)

\* C17 as stated: with the PCIC-12 sentinel a file whose name parses is
\* accepted if and only if its (driving model, realization) is a PCIC-12
\* pair; with any other selection a file is accepted only when its
\* realization is 1.
C17_AsStated ==
    (dstate = "returned" /\ method = "filename") =>
        \A k \in 1..Len(catalog) :
            NameParses(catalog[k]) =>
                IF PcicSelected
                THEN Accepted(k) <=> PcicPairSelected(parse_name(catalog[k].name))
                ELSE Accepted(k) =>
                         parse_name(catalog[k].name).named[5] = <<"1">>

\* C17 (amended): with the PCIC-12 sentinel a file whose name parses is
\* accepted if and only if its variable is requested (when variables are
\* given), its experiment id contains the rcp (when given) and its (driving
\* model, realization) is a PCIC-12 pair; with any other selection a file is
\* accepted only when its realization is 1.
C17_Realizations ==
    (dstate = "returned" /\ method = "filename") =>
        \A k \in 1..Len(catalog) :
            NameParses(catalog[k]) =>
                IF PcicSelected
                THEN Accepted(k) <=>
                         /\ VariableRequested(parse_name(catalog[k].name))
                         /\ RcpRequested(parse_name(catalog[k].name))
                         /\ PcicPairSelected(parse_name(catalog[k].name))
                ELSE Accepted(k) =>
                         parse_name(catalog[k].name).named[5] = <<"1">>

\* the PCIC-12 sentinel: CCSM4 r2 is returned, CCSM4 r1 is not
C17_Witness ==
    /\ dstate = "returned" /\ method = "filename"
    /\ PcicSelected
    /\ UrlsOf(catalog) = <<OpendapUrl(4), OpendapUrl(5)>>
    /\ urls = <<OpendapUrl(4)>>

(***************************************************************************)
(* ensemble_common_handler: the working directory                          *)
(***************************************************************************)
\* the handler is inside the iteration of the rcp at rpos
InRcp ==
    hpc \in {"subset", "compute_intermediate_variables",
             "in compute_intermediate_variables", "make_indicator_inputs",
             "for inputs"}

\* the directory of the rcp at rpos
RcpDir == base_work_dir \o <<request.rcp[rpos]>>

\* C19: inside the iteration of an rcp the working directory of the process
\* is <base>/<rcp>; a file of an intermediate variable or of an index that is
\* written then is written in that directory; once the handler has returned
\* the working directory is the base directory.
C19_Workdir ==
    /\ [](InRcp => workdir = RcpDir)
    /\ [](hpc = "returned" => workdir = base_work_dir)
    /\ [][/\ (InRcp /\ Len(written') = Len(written) + 1) =>
                written'[Len(written')].file.dir = RcpDir
          /\ (InRcp /\ Len(stored') = Len(stored) + 1) =>
                stored'[Len(stored')].file.dir = RcpDir]_vars

\* rcp45 then rcp85: t90 needs tas, which is computed in the directory of
\* each rcp, the index files are stored in the directory of each rcp, and the
\* handler has returned
C19_Witness ==
    /\ hpc = "returned"
    /\ request.rcp = <<"rcp45", "rcp85">>
    /\ workdir = base_work_dir
    /\ \E i, j \in 1..Len(written) :
          /\ written[i].file.dir = <<"workdir", "rcp45">>
          /\ written[j].file.dir = <<"workdir", "rcp85">>
    /\ \E i, j \in 1..Len(stored) :
          /\ stored[i].file.dir = <<"workdir", "rcp45">>
          /\ stored[j].file.dir = <<"workdir", "rcp85">>

(***************************************************************************)
(* compute_intermediate_variables: the variables that can be obtained      *)
(***************************************************************************)
\* a variable is in the group, or is computed by variable_computations from
\* inputs that can all be obtained
RECURSIVE obtainable(_, _)
obtainable(variable, present) ==
    \/ variable \in present
    \/ /\ variable \in DOMAIN variable_computations
       /\ \A i \in Range(variable_computations[variable].inputs) :
              obtainable(i, present)

\* the group of the iteration, as make_file_groups returned it
FilesOfGroup == Keys(civ_groups[gpos])

\* the call has raised in the iteration of a group
CivRaised ==
    /\ caller = "compute_intermediate_variables"
    /\ fpc \in {"RuntimeError", "KeyError"}

\* C21 as stated: the call raises only when some required variable is not in
\* the group and cannot be derived from the files of the group.
C21_AsStated ==
    CivRaised =>
        \E variable \in required_variable_names :
            ~obtainable(variable, FilesOfGroup)

\* C21: RuntimeError is raised only when some variable the code has put in
\* variables_to_compute (a required variable that is not in the group, or a
\* computed input of one, in the group or not) has an input that cannot be
\* obtained from the files of the group; and the iteration of a group ends
\* only when every required variable can be obtained.
C21_Raises ==
    /\ (caller = "compute_intermediate_variables" /\ fpc = "RuntimeError") =>
          \E variable \in intermediates(required_variable_names \ FilesOfGroup) :
              \E i \in Range(variable_computations[variable].inputs) :
                  ~obtainable(i, FilesOfGroup)
    /\ (caller = "compute_intermediate_variables" /\ fpc = "while"
            /\ variables_to_compute = {}) =>
          \A variable \in required_variable_names :
              obtainable(variable, FilesOfGroup)

\* tas and t10 are required and the group has a tas file only: t10 has been
\* computed and written, tas is left in variables_to_compute and the call
\* has raised RuntimeError
C21_Witness ==
    /\ fpc = "RuntimeError"
    /\ caller = "compute_intermediate_variables"
    /\ required_variable_names = {"tas", "t10"}
    /\ FilesOfGroup = {"tas"}
    /\ variables_to_compute = {"tas"}
    /\ \E k \in 1..Len(written) : written[k].variable = "t10"

(***************************************************************************)
(* write_log: the status percentage of the messages of the handler         *)
(***************************************************************************)
\* list(process.status_percentage_steps.values()), in the order of the keys
\* of the dict
StepOrder == <<"start", "subset", "compute_indices", "convert_to_csv", "done">>

RECURSIVE values_in_order(_, _)
values_in_order(steps, keys) ==
    IF keys = <<>> THEN <<>>
    ELSE (IF Head(keys) \in DOMAIN steps THEN <<steps[Head(keys)]>> ELSE <<>>)
             \o values_in_order(steps, Tail(keys))

steps_percentages(steps) == values_in_order(steps, StepOrder)

\* status_percentage after `if process_step:`, in hundredths of a percent
step_percentage(steps, current, process_step) ==
    IF process_step # "" /\ process_step \in DOMAIN steps
    THEN steps[process_step] * 100 ELSE current

\* the steps after the percentage, by their position in steps_percentages
steps_above(q, percentage) == {k \in 1..Len(q) : percentage < q[k] * 100}

\* steps_percentages[n - 1], where n counts from 0: -1 is the last value
step_before(q, k) == q[IF k = 1 THEN Len(q) ELSE k - 1]

\* the first step after the percentage: `if status_percentage < percent`
first_above(q, percentage) ==
    CHOOSE k \in steps_above(q, percentage) :
        \A j \in steps_above(q, percentage) : k <= j

\* current_step_percentage + subtask_percentage / 100 *
\* (next_step_percentage - current_step_percentage), in hundredths; the
\* for-else takes the last step (or 1) and 100
subtask_status(q, percentage, subtask_percentage) ==
    IF steps_above(q, percentage) = {}
    THEN (IF q = <<>> THEN 1 ELSE q[Len(q)]) * 100
             + subtask_percentage
                   * (100 - (IF q = <<>> THEN 1 ELSE q[Len(q)]))
    ELSE step_before(q, first_above(q, percentage)) * 100
             + subtask_percentage
                   * (q[first_above(q, percentage)]
                      - step_before(q, first_above(q, percentage)))

\* the status percentage one call of write_log reports, in hundredths
write_log(steps, current, entry) ==
    IF entry.subtask_percentage = -1
    THEN step_percentage(steps, current, entry.process_step)
    ELSE subtask_status(steps_percentages(steps),
                        step_percentage(steps, current, entry.process_step),
                        entry.subtask_percentage)

\* the status percentages of the messages of a log, response.status_percentage
\* being `current` before the first
RECURSIVE status_percentages(_, _, _)
status_percentages(steps, current, entries) ==
    IF entries = <<>> THEN <<>>
    ELSE <<write_log(steps, current, Head(entries))>>
             \o status_percentages(steps,
                                   write_log(steps, current, Head(entries)),
                                   Tail(entries))

\* the percentages of the messages the handler has logged
Reported == status_percentages(status_percentage_steps, 0, log)

\* C22 as stated: the status percentage never decreases from one message to
\* the next during one call of the handler.
C22_AsStated ==
    LET reported == Reported
    IN  \A i \in 2..Len(reported) : reported[i - 1] <= reported[i]

\* C22: the status percentage decreases only at the message "Running subset"
\* of an rcp after the first, where it goes back to that of the subset step;
\* in a call with one rcp it never decreases, and it is always between the
\* percentage of `start` and that of `done`.
C22_Monotone ==
    LET reported == Reported
    IN  /\ \A i \in 2..Len(reported) :
              reported[i] < reported[i - 1] =>
                  /\ log[i].process_step = "subset"
                  /\ reported[i] = status_percentage_steps["subset"] * 100
                  /\ \E j \in 1..(i - 1) : log[j].process_step = "subset"
        /\ Len(request.rcp) = 1 =>
              \A i \in 2..Len(reported) : reported[i - 1] <= reported[i]
        /\ \A i \in 1..Len(reported) :
              /\ reported[i] >= status_percentage_steps["start"] * 100
              /\ reported[i] <= status_percentage_steps["done"] * 100

\* a call with one rcp and two files of indices to csv has returned: the
\* second file of indices is reported at 50 + 50 / 100 * (95 - 50) = 72.5
C22_Witness ==
    /\ hpc = "returned"
    /\ Len(request.rcp) = 1
    /\ request.output_format = "csv"
    /\ \E i \in 1..Len(log) :
          /\ log[i].subtask_percentage = 50
          /\ Reported[i] = 7250
    /\ Reported[Len(log)] = 9900

\* a call with two rcps: the message "Running subset" of the second rcp is
\* reported at 7 after a message at 50 or above
C22_WitnessDecrease ==
    /\ Len(request.rcp) = 2
    /\ \E i \in 2..Len(log) :
          /\ log[i].process_step = "subset"
          /\ Reported[i] = 700
          /\ Reported[i - 1] >= 5000
====
